---- MODULE Spec2Model ----
(***************************************************************************)
(* Model of the per-client streaming session of webdisplay               *)
(* (src/src/transport/session.rs) together with the parts of the frame    *)
(* codec, the capture engine and the encoder wrapper it relies on.         *)
(*                                                                         *)
(* The session is a sequential blocking loop; the model follows it from    *)
(* one blocking call to the next (pc).  The transport, the capture device  *)
(* and the hardware encoder are the environment: each call on them picks   *)
(* one of the results the call can return.  The statistics window and      *)
(* pace_frame only log and wait; they change none of the state below.      *)
(***************************************************************************)
EXTENDS Integers, Sequences, FiniteSets, TLC

(***************************************************************************)
(* Bounds of the model.                                                    *)
(***************************************************************************)
\* packets the session may hand to the transport in one explored run
MaxSent == 4
\* access units the encoder may hold back after an encode call
MaxEncLatency == 1

(***************************************************************************)
(* Program constants: session.rs:11-23, frame.rs:32-34,49.                 *)
(***************************************************************************)
DEFAULT_TARGET_FPS == 60
MIN_TARGET_FPS == 24
MAX_TARGET_FPS == 120
DEFAULT_TARGET_BITRATE == 20000000
MIN_TARGET_BITRATE == 2000000
MAX_TARGET_BITRATE == 80000000
DEFAULT_KEYFRAME_INTERVAL_SECS == 2
MIN_KEYFRAME_INTERVAL_SECS == 1
MAX_KEYFRAME_INTERVAL_SECS == 10
FLAG_KEYFRAME == 1
FLAG_END_OF_FRAME == 2
HEADER_SIZE == 16

(***************************************************************************)
(* Option values: None is <<>>, Some(x) is <<x>>.                          *)
(***************************************************************************)
None == <<>>
Some(x) == <<x>>
IsSome(o) == Len(o) = 1
Unwrap(o) == o[1]

(***************************************************************************)
(* u32 values that can wrap are kept as <<high 16 bits, low 16 bits>>.     *)
(***************************************************************************)
U32Zero == <<0, 0>>
U32Max == <<65535, 65535>>

\* faulty variant of wrapping_add: the counter saturates instead of wrapping
SaturatingAdd1(s) ==
    IF s = U32Max THEN s
    ELSE IF s[2] = 65535 THEN <<s[1] + 1, 0>> ELSE <<s[1], s[2] + 1>>

\* u32::wrapping_add(1)
WrappingAdd1(s) ==
    IF s[2] = 65535 THEN <<(s[1] + 1) % 65536, 0>> ELSE <<s[1], s[2] + 1>>

\* faulty variant of Ord::clamp: only the upper limit is enforced
ClampUpperOnly(x, lo, hi) == IF x > hi THEN hi ELSE x

\* Ord::clamp
Clamp(x, lo, hi) == IF x < lo THEN lo ELSE IF x > hi THEN hi ELSE x

(***************************************************************************)
(* Frame codec (protocol/frame.rs).                                        *)
(***************************************************************************)
\* FrameType discriminants present in frame.rs
FrameTypeByte(t) ==
    CASE t = "VideoFrame" -> 1
      [] t = "KeyframeRequest" -> 2
      [] t = "Stats" -> 3
      [] t = "Ping" -> 16
      [] t = "Pong" -> 17

\* the frame types session.rs names whose declaration is not in frame.rs
ControlFrameTypeByte(t) ==
    CASE t = "MonitorList" -> 4
      [] t = "MonitorSelect" -> 5
      [] t = "EncodingSettings" -> 6
      [] t = "MouseInput" -> 7
      [] t = "KeyboardInput" -> 8

\* `frame_type as u8` in to_bytes
TypeByte(t) ==
    IF t \in {"VideoFrame", "KeyframeRequest", "Stats", "Ping", "Pong"}
    THEN FrameTypeByte(t) ELSE ControlFrameTypeByte(t)

\* the match on buf[0] in FrameHeader::from_bytes, as frame.rs has it
FrameTypeOfByte(b) ==
    CASE b = 1 -> Some("VideoFrame")
      [] b = 2 -> Some("KeyframeRequest")
      [] b = 3 -> Some("Stats")
      [] b = 16 -> Some("Ping")
      [] b = 17 -> Some("Pong")
      [] OTHER -> None

\* from_bytes as session.rs uses it: it also yields the control frame types
SessionFrameTypeOfByte(b) ==
    CASE b = 4 -> Some("MonitorList")
      [] b = 5 -> Some("MonitorSelect")
      [] b = 6 -> Some("EncodingSettings")
      [] b = 7 -> Some("MouseInput")
      [] b = 8 -> Some("KeyboardInput")
      [] OTHER -> FrameTypeOfByte(b)

(***************************************************************************)
(* Codec names (encode/amf.rs).  A raw name is a sequence of characters.   *)
(***************************************************************************)
IsSpace(c) == c \in {" ", "\t", "\n"}

\* u8::to_ascii_lowercase on the characters the model uses
LowerChar(c) ==
    CASE c = "A" -> "a" [] c = "V" -> "v" [] c = "C" -> "c"
      [] c = "H" -> "h" [] c = "E" -> "e" [] OTHER -> c

ToAsciiLowercase(s) == [i \in 1..Len(s) |-> LowerChar(s[i])]

RECURSIVE TrimStart(_)
TrimStart(s) ==
    IF s # <<>> /\ IsSpace(Head(s)) THEN TrimStart(Tail(s)) ELSE s

RECURSIVE TrimEnd(_)
TrimEnd(s) ==
    IF s # <<>> /\ IsSpace(s[Len(s)]) THEN TrimEnd(SubSeq(s, 1, Len(s) - 1)) ELSE s

\* str::trim
Trim(s) == TrimEnd(TrimStart(s))

\* faulty variant of from_client_name: the name is not trimmed
from_client_name_untrimmed(raw) ==
    LET n == ToAsciiLowercase(raw) IN
    CASE n = <<"a", "v", "1">> -> Some("Av1")
      [] n = <<"a", "v", "c">> -> Some("Avc")
      [] n = <<"h", "2", "6", "4">> -> Some("Avc")
      [] n = <<"h", "e", "v", "c">> -> Some("Hevc")
      [] n = <<"h", "2", "6", "5">> -> Some("Hevc")
      [] OTHER -> None

\* VideoCodec::from_client_name
from_client_name(raw) ==
    LET n == ToAsciiLowercase(Trim(raw)) IN
    CASE n = <<"a", "v", "1">> -> Some("Av1")
      [] n = <<"a", "v", "c">> -> Some("Avc")
      [] n = <<"h", "2", "6", "4">> -> Some("Avc")
      [] n = <<"h", "e", "v", "c">> -> Some("Hevc")
      [] n = <<"h", "2", "6", "5">> -> Some("Hevc")
      [] OTHER -> None

\* VideoCodec::as_client_name
as_client_name(c) ==
    CASE c = "Av1" -> "av1" [] c = "Avc" -> "avc" [] c = "Hevc" -> "hevc"

(***************************************************************************)
(* Environment fixtures.                                                   *)
(***************************************************************************)
\* the monitor list enumerated at process start (DdaCapture::enumerate_monitors)
Monitors ==
    << [index |-> 0, left |-> 0, top |-> 0, width |-> 1920, height |-> 1080],
       [index |-> 1, left |-> 1920, top |-> 0, width |-> 1280, height |-> 1024] >>

\* control packets a client may send: total length, header type byte, header
\* payload_len, and the JSON value held by data[16 .. 16 + payload_len]
Pkt(len, tag, plen, body) ==
    [len |-> len, tag |-> tag, payload_len |-> plen, body |-> body]

NoBody == [type |-> "empty"]

SettingsBody(fps, bitrate, kf, codec) ==
    [type |-> "EncodingSettings", fps |-> fps, bitrate |-> bitrate,
     keyframe_interval |-> kf, codec |-> codec]

SettingsBodies ==
    { SettingsBody(5, 1, 0, Some(<<"v", "p", "9">>)),
      SettingsBody(60, 20000000, 2, None),
      SettingsBody(500, 2147483647, 99, Some(<<" ", "H", "2", "6", "4">>)) }

ClientPackets ==
    { Pkt(16, 2, 0, NoBody),                                   \* KeyframeRequest
      Pkt(8, 2, 0, NoBody),                                    \* shorter than a header
      Pkt(16, 9, 0, NoBody),                                   \* unknown type byte
      Pkt(16, 3, 0, NoBody),                                   \* Stats
      Pkt(20, 5, 11, [type |-> "MonitorSelect", index |-> 1]), \* truncated payload
      Pkt(27, 5, 11, [type |-> "garbage"]),                    \* not JSON
      Pkt(40, 7, 24, [type |-> "MouseInput", kind |-> "move"]),
      Pkt(40, 8, 24, [type |-> "KeyboardInput", key_code |-> 65, down |-> TRUE]) }
    \cup { Pkt(27, 5, 11, [type |-> "MonitorSelect", index |-> i]) : i \in 0..2 }
    \cup { Pkt(80, 6, 64, b) : b \in SettingsBodies }

(***************************************************************************)
(* Capture engine (capture/dda.rs) as the session sees it.                 *)
(***************************************************************************)
NoCapturer == [monitor_index |-> 0, width |-> 0, height |-> 0]

\* DdaCapture::new: EnumOutputs fails for an index that names no output, and
\* any of the device calls may fail (device_ok = FALSE)
DdaCaptureNew(monitor_index, device_ok) ==
    IF device_ok /\ \E i \in 1..Len(Monitors) : Monitors[i].index = monitor_index
    THEN LET m == Monitors[monitor_index + 1] IN
         Some([monitor_index |-> monitor_index, width |-> m.width, height |-> m.height])
    ELSE None

(***************************************************************************)
(* Encoder wrapper (encode/amf.rs).                                        *)
(***************************************************************************)
NoEncoder ==
    [codec |-> "none", width |-> 0, height |-> 0, fps |-> 0, bitrate |-> 0,
     keyframe_interval |-> 0, frame_index |-> 0, queue |-> <<>>]

\* AmfEncoder::new: frame_index starts at 0; opening the codec may fail
AmfEncoderNew(config, codec_ok) ==
    IF codec_ok
    THEN Some([codec |-> config.codec, width |-> config.width, height |-> config.height,
               fps |-> config.fps, bitrate |-> config.bitrate,
               keyframe_interval |-> config.keyframe_interval,
               frame_index |-> 0, queue |-> <<>>])
    ELSE None

\* faulty variant of AmfEncode: a forced keyframe restarts the timestamps
AmfEncode_keyframe_restarts(enc, force_keyframe, gop_key, n_out) ==
    LET index == IF force_keyframe THEN 0 ELSE enc.frame_index
        au == [pts |-> index,
               is_keyframe |-> force_keyframe \/ enc.frame_index = 0 \/ gop_key]
        q == Append(enc.queue, au)
    IN [frames |-> SubSeq(q, 1, n_out),
        encoder |-> [enc EXCEPT !.frame_index = index + 1,
                                !.queue = SubSeq(q, n_out + 1, Len(q))]]

\* AmfEncoder::encode: the frame is stamped with frame_index and submitted with
\* picture type I iff force_keyframe; the receive_packet loop then returns the
\* n_out oldest access units that are ready.  The access unit of a frame is a
\* keyframe when the frame was forced, when it is the first frame of the encoder,
\* or when the encoder's GOP scheduling makes it one (gop_key).
AmfEncode(enc, force_keyframe, gop_key, n_out) ==
    LET au == [pts |-> enc.frame_index,
               is_keyframe |-> force_keyframe \/ enc.frame_index = 0 \/ gop_key]
        q == Append(enc.queue, au)
    IN [frames |-> SubSeq(q, 1, n_out),
        encoder |-> [enc EXCEPT !.frame_index = enc.frame_index + 1,
                                !.queue = SubSeq(q, n_out + 1, Len(q))]]

(***************************************************************************)
(* Session helpers (transport/session.rs).                                 *)
(***************************************************************************)
\* EncodingSettings::default
DefaultEncodingSettings ==
    [codec |-> "Av1", fps |-> DEFAULT_TARGET_FPS, bitrate |-> DEFAULT_TARGET_BITRATE,
     keyframe_interval_secs |-> DEFAULT_KEYFRAME_INTERVAL_SECS]

\* Duration::from_micros(1_000_000 / fps), in microseconds
frame_interval_for_fps(fps) == 1000000 \div fps

\* faulty variant of capture_timeout_ms_for_fps: the extra millisecond is missing
capture_timeout_ms_for_fps_no_margin(fps) == (1000 + fps - 1) \div fps

capture_timeout_ms_for_fps(fps) == (1000 + fps - 1) \div fps + 1

encoder_config(width, height, settings) ==
    [codec |-> settings.codec, width |-> width, height |-> height, fps |-> settings.fps,
     bitrate |-> settings.bitrate, keyframe_interval |-> settings.keyframe_interval_secs]

\* faulty variant of resolve_active_monitor: the rectangle is placed at the origin
resolve_active_monitor_at_origin(monitors, monitor_index, fallback_width, fallback_height) ==
    IF \E i \in 1..Len(monitors) : monitors[i].index = monitor_index
    THEN LET m == monitors[CHOOSE j \in 1..Len(monitors) : monitors[j].index = monitor_index]
         IN [left |-> 0, top |-> 0, width |-> m.width, height |-> m.height]
    ELSE [left |-> 0, top |-> 0, width |-> fallback_width, height |-> fallback_height]

resolve_active_monitor(monitors, monitor_index, fallback_width, fallback_height) ==
    IF \E i \in 1..Len(monitors) : monitors[i].index = monitor_index
    THEN LET i == CHOOSE j \in 1..Len(monitors) :
                      /\ monitors[j].index = monitor_index
                      /\ \A k \in 1..(j - 1) : monitors[k].index # monitor_index
             m == monitors[i]
         IN [left |-> m.left, top |-> m.top, width |-> m.width, height |-> m.height]
    ELSE [left |-> 0, top |-> 0, width |-> fallback_width, height |-> fallback_height]

\* i64 -> u32 by `as`, for a non-negative value: its low 32 bits
U32OfNat(n) == <<(n \div 65536) % 65536, n % 65536>>

\* the header and payload of the initial MonitorList packet
monitor_list_packet ==
    [tag |-> TypeByte("MonitorList"), flags |-> 0, sequence |-> U32Zero, pts |-> U32Zero,
     payload |-> [json |-> "monitor_list"]]

\* the packet built by send_encoding_settings_state
encoding_settings_packet(settings) ==
    [tag |-> TypeByte("EncodingSettings"), flags |-> 0, sequence |-> U32Zero,
     pts |-> U32Zero,
     payload |-> [fps |-> settings.fps, bitrate |-> settings.bitrate,
                  keyframe_interval |-> settings.keyframe_interval_secs,
                  codec |-> as_client_name(settings.codec)]]

\* faulty variant of build_video_packet: flags start empty instead of END_OF_FRAME
build_video_packet_no_eof(ef, sequence, pts, is_keyframe) ==
    [tag |-> TypeByte("VideoFrame"),
     flags |-> IF is_keyframe THEN FLAG_KEYFRAME ELSE 0,
     sequence |-> sequence, pts |-> pts, payload |-> ef]

build_video_packet(ef, sequence, pts, is_keyframe) ==
    [tag |-> TypeByte("VideoFrame"),
     flags |-> IF is_keyframe THEN FLAG_END_OF_FRAME + FLAG_KEYFRAME ELSE FLAG_END_OF_FRAME,
     sequence |-> sequence, pts |-> pts, payload |-> ef]

\* faulty variant of parse_json_payload: the declared payload_len is not compared
\* with the bytes present
parse_json_payload_unchecked(data, payload_len, T) ==
    IF data.body.type = T THEN Some(data.body) ELSE None

\* parse_json_payload::<T>: the payload must lie inside the packet and
\* deserialize as T
parse_json_payload(data, payload_len, T) ==
    LET start == HEADER_SIZE
        end == start + payload_len
    IN IF end > data.len THEN None
       ELSE IF data.body.type = T THEN Some(data.body) ELSE None

parse_monitor_index(data, payload_len) ==
    LET p == parse_json_payload(data, payload_len, "MonitorSelect") IN
    IF IsSome(p) THEN Some(Unwrap(p).index) ELSE None

\* faulty variant of handle_binary_control_message: a mouse packet that is
\* not injected asks for a keyframe, an injected key event clears the pending
\* monitor switch
handle_input_requests_keyframe(data, fk, pms, pes, injector) ==
    LET same == [force_keyframe |-> fk, pending_monitor_switch |-> pms,
                 pending_encoding_settings |-> pes, injected |-> None,
                 filled |-> "none"]
        t == SessionFrameTypeOfByte(data.tag)
    IN IF data.len < HEADER_SIZE THEN same
       ELSE IF ~IsSome(t) THEN same
       ELSE CASE Unwrap(t) = "KeyframeRequest" -> [same EXCEPT !.force_keyframe = TRUE]
              [] Unwrap(t) = "MonitorSelect" ->
                    LET idx == parse_monitor_index(data, data.payload_len) IN
                    IF IsSome(idx)
                    THEN [same EXCEPT !.pending_monitor_switch = idx, !.filled = "monitor"]
                    ELSE same
              [] Unwrap(t) = "EncodingSettings" ->
                    LET p == parse_json_payload(data, data.payload_len, "EncodingSettings") IN
                    IF IsSome(p)
                    THEN [same EXCEPT !.pending_encoding_settings = p, !.filled = "settings"]
                    ELSE same
              [] Unwrap(t) = "MouseInput" ->
                    LET p == parse_json_payload(data, data.payload_len, "MouseInput") IN
                    IF injector /\ IsSome(p) THEN [same EXCEPT !.injected = p]
                    ELSE [same EXCEPT !.force_keyframe = TRUE]
              [] Unwrap(t) = "KeyboardInput" ->
                    LET p == parse_json_payload(data, data.payload_len, "KeyboardInput") IN
                    IF injector /\ IsSome(p)
                    THEN [same EXCEPT !.injected = p, !.pending_monitor_switch = None]
                    ELSE same
              [] OTHER -> same

\* faulty variant of handle_binary_control_message: a MonitorSelect does not
\* replace an index that is already pending
handle_keeps_first_pending(data, fk, pms, pes, injector) ==
    LET same == [force_keyframe |-> fk, pending_monitor_switch |-> pms,
                 pending_encoding_settings |-> pes, injected |-> None,
                 filled |-> "none"]
        t == SessionFrameTypeOfByte(data.tag)
    IN IF data.len < HEADER_SIZE THEN same
       ELSE IF ~IsSome(t) THEN same
       ELSE CASE Unwrap(t) = "KeyframeRequest" -> [same EXCEPT !.force_keyframe = TRUE]
              [] Unwrap(t) = "MonitorSelect" ->
                    LET idx == parse_monitor_index(data, data.payload_len) IN
                    IF IsSome(idx) /\ ~IsSome(pms)
                    THEN [same EXCEPT !.pending_monitor_switch = idx, !.filled = "monitor"]
                    ELSE same
              [] Unwrap(t) = "EncodingSettings" ->
                    LET p == parse_json_payload(data, data.payload_len, "EncodingSettings") IN
                    IF IsSome(p)
                    THEN [same EXCEPT !.pending_encoding_settings = p, !.filled = "settings"]
                    ELSE same
              [] Unwrap(t) = "MouseInput" ->
                    LET p == parse_json_payload(data, data.payload_len, "MouseInput") IN
                    IF injector /\ IsSome(p) THEN [same EXCEPT !.injected = p] ELSE same
              [] Unwrap(t) = "KeyboardInput" ->
                    LET p == parse_json_payload(data, data.payload_len, "KeyboardInput") IN
                    IF injector /\ IsSome(p) THEN [same EXCEPT !.injected = p] ELSE same
              [] OTHER -> same

\* handle_binary_control_message: the new values of the latch and of the two
\* pending slots, the input event handed to the injector (if any), and the
\* pending slot the call has written (if any)
handle_binary_control_message(data, fk, pms, pes, injector) ==
    LET same == [force_keyframe |-> fk, pending_monitor_switch |-> pms,
                 pending_encoding_settings |-> pes, injected |-> None,
                 filled |-> "none"]
        t == SessionFrameTypeOfByte(data.tag)
    IN IF data.len < HEADER_SIZE THEN same
       ELSE IF ~IsSome(t) THEN same
       ELSE CASE Unwrap(t) = "KeyframeRequest" -> [same EXCEPT !.force_keyframe = TRUE]
              [] Unwrap(t) = "MonitorSelect" ->
                    LET idx == parse_monitor_index(data, data.payload_len) IN
                    IF IsSome(idx)
                    THEN [same EXCEPT !.pending_monitor_switch = idx, !.filled = "monitor"]
                    ELSE same
              [] Unwrap(t) = "EncodingSettings" ->
                    LET p == parse_json_payload(data, data.payload_len, "EncodingSettings") IN
                    IF IsSome(p)
                    THEN [same EXCEPT !.pending_encoding_settings = p, !.filled = "settings"]
                    ELSE same
              [] Unwrap(t) = "MouseInput" ->
                    LET p == parse_json_payload(data, data.payload_len, "MouseInput") IN
                    IF injector /\ IsSome(p) THEN [same EXCEPT !.injected = p] ELSE same
              [] Unwrap(t) = "KeyboardInput" ->
                    LET p == parse_json_payload(data, data.payload_len, "KeyboardInput") IN
                    IF injector /\ IsSome(p) THEN [same EXCEPT !.injected = p] ELSE same
              [] OTHER -> same

\* the settings apply_encoding_settings compares with the active ones
next_settings_of(payload, encoding_settings) ==
    LET next_codec ==
            IF IsSome(payload.codec)
            THEN LET c == from_client_name(Unwrap(payload.codec)) IN
                 IF IsSome(c) THEN Unwrap(c) ELSE encoding_settings.codec
            ELSE encoding_settings.codec
    IN [codec |-> next_codec,
        fps |-> Clamp(payload.fps, MIN_TARGET_FPS, MAX_TARGET_FPS),
        bitrate |-> Clamp(payload.bitrate, MIN_TARGET_BITRATE, MAX_TARGET_BITRATE),
        keyframe_interval_secs |-> Clamp(payload.keyframe_interval,
                                         MIN_KEYFRAME_INTERVAL_SECS,
                                         MAX_KEYFRAME_INTERVAL_SECS)]

\* faulty variant of apply_encoding_settings: the early return for equal settings is
\* missing
apply_encoding_settings_always_rebuild(payload, encoding_settings, enc, width, height, codec_ok) ==
    LET next_settings == next_settings_of(payload, encoding_settings)
        new_encoder == AmfEncoderNew(encoder_config(width, height, next_settings), codec_ok)
    IN IF IsSome(new_encoder)
       THEN [changed |-> TRUE, encoding_settings |-> next_settings,
             encoder |-> Unwrap(new_encoder), ctor |-> "ok"]
       ELSE [changed |-> FALSE, encoding_settings |-> encoding_settings,
             encoder |-> enc, ctor |-> "fail"]

\* faulty variant of apply_encoding_settings: the settings are stored before the
\* encoder is constructed
apply_encoding_settings_commit_first(payload, encoding_settings, enc, width, height, codec_ok) ==
    LET next_settings == next_settings_of(payload, encoding_settings)
        new_encoder == AmfEncoderNew(encoder_config(width, height, next_settings), codec_ok)
    IN IF next_settings = encoding_settings
       THEN [changed |-> FALSE, encoding_settings |-> encoding_settings,
             encoder |-> enc, ctor |-> "none"]
       ELSE IF IsSome(new_encoder)
       THEN [changed |-> TRUE, encoding_settings |-> next_settings,
             encoder |-> Unwrap(new_encoder), ctor |-> "ok"]
       ELSE [changed |-> FALSE, encoding_settings |-> next_settings,
             encoder |-> enc, ctor |-> "fail"]

\* apply_encoding_settings: its return value, the settings and the encoder it
\* leaves, and what became of the AmfEncoder::new call (ctor)
apply_encoding_settings(payload, encoding_settings, enc, width, height, codec_ok) ==
    LET next_settings == next_settings_of(payload, encoding_settings)
        new_encoder == AmfEncoderNew(encoder_config(width, height, next_settings), codec_ok)
    IN IF next_settings = encoding_settings
       THEN [changed |-> FALSE, encoding_settings |-> encoding_settings,
             encoder |-> enc, ctor |-> "none"]
       ELSE IF IsSome(new_encoder)
       THEN [changed |-> TRUE, encoding_settings |-> next_settings,
             encoder |-> Unwrap(new_encoder), ctor |-> "ok"]
       ELSE [changed |-> FALSE, encoding_settings |-> encoding_settings,
             encoder |-> enc, ctor |-> "fail"]

\* faulty variant of switch_monitor: the new capture engine is swapped in without a
\* new encoder
switch_monitor_keeps_encoder(new_index, cur_index, cap, enc, encoding_settings, device_ok, codec_ok) ==
    LET keep(cc, ec) == [switched |-> FALSE, current_monitor_index |-> cur_index,
                         capturer |-> cap, encoder |-> enc,
                         cap_ctor |-> cc, enc_ctor |-> ec]
        new_capturer == DdaCaptureNew(new_index, device_ok)
    IN IF new_index = cur_index THEN keep("none", "none")
       ELSE IF ~IsSome(new_capturer) THEN keep("fail", "none")
       ELSE [switched |-> TRUE, current_monitor_index |-> new_index,
             capturer |-> Unwrap(new_capturer), encoder |-> enc,
             cap_ctor |-> "ok", enc_ctor |-> "none"]

\* faulty variant of switch_monitor: capture engine and index are assigned before
\* the encoder is constructed
switch_monitor_swaps_early(new_index, cur_index, cap, enc, encoding_settings, device_ok, codec_ok) ==
    LET keep(cc, ec) == [switched |-> FALSE, current_monitor_index |-> cur_index,
                         capturer |-> cap, encoder |-> enc,
                         cap_ctor |-> cc, enc_ctor |-> ec]
        new_capturer == DdaCaptureNew(new_index, device_ok)
    IN IF new_index = cur_index THEN keep("none", "none")
       ELSE IF ~IsSome(new_capturer) THEN keep("fail", "none")
       ELSE LET nc == Unwrap(new_capturer)
                new_encoder == AmfEncoderNew(
                    encoder_config(nc.width, nc.height, encoding_settings), codec_ok)
            IN IF ~IsSome(new_encoder)
               THEN [switched |-> FALSE, current_monitor_index |-> new_index,
                     capturer |-> nc, encoder |-> enc,
                     cap_ctor |-> "ok", enc_ctor |-> "fail"]
               ELSE [switched |-> TRUE, current_monitor_index |-> new_index,
                     capturer |-> nc, encoder |-> Unwrap(new_encoder),
                     cap_ctor |-> "ok", enc_ctor |-> "ok"]

\* faulty variant of switch_monitor: the encoder is built with the dimensions of
\* the capture engine being replaced
switch_monitor_old_dimensions(new_index, cur_index, cap, enc, encoding_settings, device_ok, codec_ok) ==
    LET keep(cc, ec) == [switched |-> FALSE, current_monitor_index |-> cur_index,
                         capturer |-> cap, encoder |-> enc,
                         cap_ctor |-> cc, enc_ctor |-> ec]
        new_capturer == DdaCaptureNew(new_index, device_ok)
    IN IF new_index = cur_index THEN keep("none", "none")
       ELSE IF ~IsSome(new_capturer) THEN keep("fail", "none")
       ELSE LET nc == Unwrap(new_capturer)
                new_encoder == AmfEncoderNew(
                    encoder_config(cap.width, cap.height, encoding_settings), codec_ok)
            IN IF ~IsSome(new_encoder) THEN keep("ok", "fail")
               ELSE [switched |-> TRUE, current_monitor_index |-> new_index,
                     capturer |-> nc, encoder |-> Unwrap(new_encoder),
                     cap_ctor |-> "ok", enc_ctor |-> "ok"]

\* switch_monitor: Ok(true) or Ok(false), and the state it leaves
switch_monitor(new_index, cur_index, cap, enc, encoding_settings, device_ok, codec_ok) ==
    LET keep(cc, ec) == [switched |-> FALSE, current_monitor_index |-> cur_index,
                         capturer |-> cap, encoder |-> enc,
                         cap_ctor |-> cc, enc_ctor |-> ec]
        new_capturer == DdaCaptureNew(new_index, device_ok)
    IN IF new_index = cur_index THEN keep("none", "none")
       ELSE IF ~IsSome(new_capturer) THEN keep("fail", "none")
       ELSE LET nc == Unwrap(new_capturer)
                new_encoder == AmfEncoderNew(
                    encoder_config(nc.width, nc.height, encoding_settings), codec_ok)
            IN IF ~IsSome(new_encoder) THEN keep("ok", "fail")
               ELSE [switched |-> TRUE, current_monitor_index |-> new_index,
                     capturer |-> nc, encoder |-> Unwrap(new_encoder),
                     cap_ctor |-> "ok", enc_ctor |-> "ok"]

(***************************************************************************)
(* State of one session (the locals of run_client_service) and of what it  *)
(* has done to its environment.                                            *)
(***************************************************************************)
VARIABLES
    pc,                         \* the blocking call the session thread is at
    result,                     \* "running", or what run_client_service returned
    sent_count,                 \* packets the transport has accepted
    video_sent,                 \* VideoFrame packets among them
    last_sent,                  \* the packet accepted last (None before the first)
    encoding_settings,
    frame_interval,             \* microseconds
    capture_timeout_ms,
    current_monitor_index,
    capturer,
    encoder,
    active_monitor,
    input_injector,             \* TRUE when InputInjector::new succeeded
    force_keyframe,
    pending_monitor_switch,
    pending_encoding_settings,
    frame_seq,
    requesting_kf,
    encoded_frames,             \* access units of the last encode not yet sent
    io_error,                   \* send_packet or recv_packet has reported an error
    cap_ctor,                   \* DdaCapture::new in the last monitor-switch step
    enc_ctor,                   \* AmfEncoder::new in the last apply step
    kf_requested,               \* a KeyframeRequest was drained, no encode since
    kf_due,                     \* a switch/settings change was accepted, no VideoFrame since
    seq_base,                   \* VideoFrame packets sent before `sent` begins
    dropped,                    \* the packet drained by the last step was malformed
    injected,                   \* the event the last step handed to the injector
    pending_order,              \* the filled pending slots, oldest arrival first
    input_result,               \* what became of the input event of the last step
    sessions,                   \* concurrent sessions: the locals of each
    monitors,                   \* Arc<Vec<MonitorInfo>> shared by the sessions
    monitor_list_json,          \* Arc<Vec<u8>> shared by the sessions
    codec_pc,                   \* header codec: the call that is next
    hdr,                        \* header codec: the FrameHeader given to to_bytes
    wire,                       \* header codec: the 16 bytes
    decoded,                    \* header codec: what from_bytes returned
    wt_pc,                      \* QUIC transport: "idle", or "read" inside recv_packet
    wt_timeout,                 \* QUIC transport: the timeout of the current call
    wt_stream,                  \* QUIC transport: bytes the peer wrote, not yet read
    recv_buffer,                \* WebTransportIo::recv_buffer
    wt_result,                  \* QUIC transport: what the last recv_packet returned
    wt_delivered,               \* QUIC transport: the packets returned so far
    wt_input,                   \* QUIC transport: the packets the peer framed
    wt_out,                     \* QUIC transport: the frames written to the send stream
    srv_rx,                     \* WebRTC: packets queued by send_packet (srv_tx -> srv_rx)
    rtc_cur,                    \* WebRTC sender task: the packet being chunked, and offset
    rtc_sender,                 \* WebRTC sender task: "running" or "stopped"
    rtc_wire,                   \* WebRTC: the messages given to the data channel
    rtc_done,                   \* WebRTC: the packets the sender task has finished
    rtc_client,                 \* WebRTC: the chunks the client has still to send
    io_rx,                      \* WebRTC: messages queued by on_message (io_tx -> io_rx)
    rtc_received,               \* WebRTC: what recv_packet has returned
    rtc_drain,                  \* WebRTC: the control drain in progress, if any
    pace_pc,                    \* frame pacing: position in the steady loop
    now,                        \* frame pacing: the monotonic clock
    loop_top,                   \* frame pacing: the clock when the iteration began
    frame_start,                \* frame pacing: the Instant of session.rs:233
    pace_interval,              \* frame pacing: frame_interval
    paced,                      \* frame pacing: the last pace_frame call
    unit_call,                  \* single functions: the call and its arguments
    unit_ret                    \* single functions: what the call returned

vars ==
    << pc, result, sent_count, video_sent, last_sent, encoding_settings, frame_interval, capture_timeout_ms,
       current_monitor_index, capturer, encoder, active_monitor, input_injector,
       force_keyframe, pending_monitor_switch, pending_encoding_settings, frame_seq,
       requesting_kf, encoded_frames, io_error, cap_ctor, enc_ctor, kf_requested,
       kf_due, seq_base, dropped, injected, pending_order,
       input_result >>

\* the locals that exist once construction is over
session_locals ==
    << encoding_settings, frame_interval, capture_timeout_ms, current_monitor_index,
       capturer, encoder, active_monitor, input_injector >>

control_state == << force_keyframe, pending_monitor_switch, pending_encoding_settings >>

sent == << sent_count, video_sent, last_sent >>

\* send_packet returned Ok(()) for packet
Accepted(packet) ==
    /\ sent_count' = sent_count + 1
    /\ video_sent' = (IF packet.tag = TypeByte("VideoFrame") THEN video_sent + 1
                      ELSE video_sent)
    /\ last_sent' = Some(packet)

ghosts == << io_error, cap_ctor, enc_ctor, kf_requested, kf_due, seq_base >>

\* what the drain has observed of the packets it took
drain_ghosts == << dropped, injected, pending_order, input_result >>

\* the state of the server with several clients connected
multi_vars == << sessions, monitors, monitor_list_json >>

\* no client of the multi-session server is connected
MultiIdle ==
    /\ sessions = <<>>
    /\ monitors = <<>>
    /\ monitor_list_json = <<>>

\* the header codec of protocol/frame.rs on its own
codec_vars == << codec_pc, hdr, wire, decoded >>

CodecIdle ==
    /\ codec_pc = "idle"
    /\ hdr = None
    /\ wire = <<>>
    /\ decoded = None

\* the QUIC stream transport of transport/webtransport.rs on its own
wt_vars == << wt_pc, wt_timeout, wt_stream, recv_buffer, wt_result, wt_delivered, wt_input,
             wt_out >>

WtIdle ==
    /\ wt_pc = "off"
    /\ wt_timeout = "zero"
    /\ wt_stream = <<>>
    /\ recv_buffer = <<>>
    /\ wt_result = [kind |-> "none"]
    /\ wt_delivered = <<>>
    /\ wt_input = <<>>
    /\ wt_out = <<>>

\* the WebRTC data-channel transport of transport/webrtc.rs on its own
rtc_vars == << srv_rx, rtc_cur, rtc_sender, rtc_wire, rtc_done, rtc_client, io_rx, rtc_received,
              rtc_drain >>

RtcIdle ==
    /\ srv_rx = <<>>
    /\ rtc_cur = None
    /\ rtc_sender = "off"
    /\ rtc_wire = <<>>
    /\ rtc_done = <<>>
    /\ rtc_client = {}
    /\ io_rx = <<>>
    /\ rtc_received = <<>>
    /\ rtc_drain = None

\* the pacing of the steady loop of transport/session.rs on its own
pace_vars == << pace_pc, now, loop_top, frame_start, pace_interval, paced >>

PaceIdle ==
    /\ pace_pc = "off"
    /\ now = 0
    /\ loop_top = 0
    /\ frame_start = 0
    /\ pace_interval = 0
    /\ paced = None

\* single functions of the program applied to chosen arguments
unit_vars == << unit_call, unit_ret >>

UnitIdle ==
    /\ unit_call = None
    /\ unit_ret = None

\* the groups that are idle in every specification of one component
rest_vars == << pace_vars, unit_vars >>

RestIdle == PaceIdle /\ UnitIdle

\* the state of the components that are studied on their own
aux_vars == << multi_vars, codec_vars, wt_vars, rtc_vars, rest_vars >>

AuxIdle == MultiIdle /\ CodecIdle /\ WtIdle /\ RtcIdle /\ RestIdle

\* everything but the multi-session server, but the codec, but the QUIC
\* transport, but the WebRTC transport, but the pacing, but the single
\* functions
not_multi == << codec_vars, wt_vars, rtc_vars, rest_vars >>
not_codec == << multi_vars, wt_vars, rtc_vars, rest_vars >>
not_wt == << multi_vars, codec_vars, rtc_vars, rest_vars >>
not_rtc == << multi_vars, codec_vars, wt_vars, rest_vars >>
not_pace == << multi_vars, codec_vars, wt_vars, rtc_vars, unit_vars >>
not_unit == << multi_vars, codec_vars, wt_vars, rtc_vars, pace_vars >>

\* run_client_service is entered with a fresh transport
SessionInit ==
    /\ pc = "send_monitor_list"
    /\ result = "running"
    /\ sent_count = 0
    /\ video_sent = 0
    /\ last_sent = None
    /\ encoding_settings = DefaultEncodingSettings
    /\ frame_interval = frame_interval_for_fps(DefaultEncodingSettings.fps)
    /\ capture_timeout_ms = capture_timeout_ms_for_fps(DefaultEncodingSettings.fps)
    /\ current_monitor_index = 0
    /\ capturer = NoCapturer
    /\ encoder = NoEncoder
    /\ active_monitor = [left |-> 0, top |-> 0, width |-> 0, height |-> 0]
    /\ input_injector = FALSE
    /\ force_keyframe = TRUE
    /\ pending_monitor_switch = None
    /\ pending_encoding_settings = None
    /\ frame_seq = U32Zero
    /\ requesting_kf = FALSE
    /\ encoded_frames = <<>>
    /\ io_error = FALSE
    /\ cap_ctor = "none"
    /\ enc_ctor = "none"
    /\ kf_requested = FALSE
    /\ kf_due = FALSE
    /\ seq_base = U32Zero
    /\ dropped = FALSE
    /\ injected = None
    /\ pending_order = <<>>
    /\ input_result = None

\* one client is connected and nothing else is going on
Init == SessionInit /\ AuxIdle

\* `return`: the session thread leaves run_client_service
Return(r) ==
    /\ pc' = "done"
    /\ result' = r

\* send_monitor_list (session.rs:125): an error is returned to the caller
SendMonitorList ==
    /\ UNCHANGED << drain_ghosts, aux_vars >>
    /\ pc = "send_monitor_list"
    /\ sent_count < MaxSent
    /\ \E ok \in BOOLEAN :
          IF ok
          THEN /\ Accepted(monitor_list_packet)
               /\ pc' = "construct"
               /\ UNCHANGED << result, io_error >>
          ELSE /\ Return("Err")
               /\ io_error' = TRUE
               /\ UNCHANGED sent
    /\ UNCHANGED << session_locals, control_state, frame_seq, requesting_kf,
                    encoded_frames, cap_ctor, enc_ctor, kf_requested, kf_due, seq_base >>

\* session.rs:127-157: capture engine for monitor 0, encoder, active monitor, injector
Construct ==
    /\ UNCHANGED << drain_ghosts, aux_vars >>
    /\ pc = "construct"
    /\ \E device_ok \in BOOLEAN, codec_ok \in BOOLEAN, injector_ok \in BOOLEAN :
          LET c == DdaCaptureNew(current_monitor_index, device_ok)
              e == IF IsSome(c)
                   THEN AmfEncoderNew(encoder_config(Unwrap(c).width, Unwrap(c).height,
                                                     encoding_settings), codec_ok)
                   ELSE None
          IN IF IsSome(c) /\ IsSome(e)
             THEN /\ capturer' = Unwrap(c)
                  /\ encoder' = Unwrap(e)
                  /\ active_monitor' = resolve_active_monitor(
                         Monitors, current_monitor_index, Unwrap(c).width, Unwrap(c).height)
                  /\ input_injector' = injector_ok
                  /\ pc' = "send_settings"
                  /\ UNCHANGED result
             ELSE /\ Return("Err")
                  /\ UNCHANGED << capturer, encoder, active_monitor, input_injector >>
    /\ UNCHANGED << sent, encoding_settings, frame_interval, capture_timeout_ms,
                    current_monitor_index, control_state, frame_seq, requesting_kf,
                    encoded_frames, ghosts >>

\* faulty variant of the initial state frame: the steady loop is entered without it
SendInitialSettings_skipped ==
    /\ UNCHANGED << drain_ghosts, aux_vars >>
    /\ pc = "send_settings"
    /\ pc' = "drain"
    /\ UNCHANGED << result, sent, session_locals, control_state, frame_seq,
                    requesting_kf, encoded_frames, ghosts >>

\* session.rs:173-176: the initial EncodingSettings state frame
SendInitialSettings ==
    /\ UNCHANGED << drain_ghosts, aux_vars >>
    /\ pc = "send_settings"
    /\ sent_count < MaxSent
    /\ \E ok \in BOOLEAN :
          IF ok
          THEN /\ Accepted(encoding_settings_packet(encoding_settings))
               /\ pc' = "drain"
               /\ UNCHANGED << result, io_error >>
          ELSE /\ Return("Ok")
               /\ io_error' = TRUE
               /\ UNCHANGED sent
    /\ UNCHANGED << session_locals, control_state, frame_seq, requesting_kf,
                    encoded_frames, cap_ctor, enc_ctor, kf_requested, kf_due, seq_base >>

\* the packets the control handler is to drop: shorter than a header, of an
\* unknown type, or a MonitorSelect / EncodingSettings / MouseInput /
\* KeyboardInput packet whose payload is cut short or is not the expected JSON
IsDropCase(data) ==
    \/ data.len < 16
    \/ data.tag \notin {1, 2, 3, 4, 5, 6, 7, 8, 16, 17}
    \/ /\ data.tag \in {5, 6, 7, 8}
       /\ \/ 16 + data.payload_len > data.len
          \/ data.body.type # (CASE data.tag = 5 -> "MonitorSelect"
                                 [] data.tag = 6 -> "EncodingSettings"
                                 [] data.tag = 7 -> "MouseInput"
                                 [] data.tag = 8 -> "KeyboardInput")

\* the order of the filled pending slots after slot `kind` has been written
Arrived(order, kind) == Append(SelectSeq(order, LAMBDA k : k # kind), kind)

\* the order of the filled pending slots after slot `kind` has been taken
Taken(order, kind) == SelectSeq(order, LAMBDA k : k # kind)

\* what one recv_packet(CONTROL_POLL_TIMEOUT) call of the drain can return
RecvResults == {[kind |-> "err"], [kind |-> "none"]}
               \cup {[kind |-> "packet", data |-> d] : d \in ClientPackets}

\* faulty variant of the drain: a recv_packet error is treated like "nothing ready"
drain_step_ignores_error(r) ==
    CASE r.kind = "err" ->
            /\ pc' = "apply_monitor"
            /\ io_error' = TRUE
            /\ UNCHANGED << result, control_state, kf_requested >>
      [] r.kind = "none" ->
            /\ pc' = "apply_monitor"
            /\ UNCHANGED << result, io_error, control_state, kf_requested >>
      [] r.kind = "packet" ->
            LET h == handle_binary_control_message(
                         r.data, force_keyframe, pending_monitor_switch,
                         pending_encoding_settings, input_injector)
            IN /\ force_keyframe' = h.force_keyframe
               /\ pending_monitor_switch' = h.pending_monitor_switch
               /\ pending_encoding_settings' = h.pending_encoding_settings
               /\ kf_requested' = (kf_requested \/
                                   (r.data.len >= HEADER_SIZE /\ r.data.tag = 2))
               /\ UNCHANGED << pc, result, io_error >>

\* one turn of the loop of drain_control_messages (session.rs:365-386)
drain_step(r) ==
    CASE r.kind = "err" ->
            /\ Return("Ok")
            /\ io_error' = TRUE
            /\ UNCHANGED << control_state, kf_requested >>
      [] r.kind = "none" ->
            /\ pc' = "apply_monitor"
            /\ UNCHANGED << result, io_error, control_state, kf_requested >>
      [] r.kind = "packet" ->
            LET h == handle_binary_control_message(
                         r.data, force_keyframe, pending_monitor_switch,
                         pending_encoding_settings, input_injector)
            IN /\ force_keyframe' = h.force_keyframe
               /\ pending_monitor_switch' = h.pending_monitor_switch
               /\ pending_encoding_settings' = h.pending_encoding_settings
               /\ kf_requested' = (kf_requested \/
                                   (r.data.len >= HEADER_SIZE /\ r.data.tag = 2))
               /\ UNCHANGED << pc, result, io_error >>

Drain ==
    /\ pc = "drain"
    /\ \E r \in RecvResults : drain_step(r)
    /\ UNCHANGED << drain_ghosts, aux_vars >>
    /\ UNCHANGED << sent, session_locals, frame_seq, requesting_kf, encoded_frames,
                    cap_ctor, enc_ctor, kf_due, seq_base >>

\* session.rs:196-212: take the pending monitor index and switch to it
ApplyMonitorSwitch ==
    /\ pc = "apply_monitor"
    /\ pending_monitor_switch' = None
    /\ pending_order' = Taken(pending_order, "monitor")
    /\ UNCHANGED << dropped, injected, input_result, aux_vars >>
    /\ IF IsSome(pending_monitor_switch)
       THEN \E device_ok \in BOOLEAN, codec_ok \in BOOLEAN :
               LET s == switch_monitor(Unwrap(pending_monitor_switch),
                                       current_monitor_index, capturer, encoder,
                                       encoding_settings, device_ok, codec_ok)
               IN /\ current_monitor_index' = s.current_monitor_index
                  /\ capturer' = s.capturer
                  /\ encoder' = s.encoder
                  /\ cap_ctor' = s.cap_ctor
                  /\ enc_ctor' = s.enc_ctor
                  /\ force_keyframe' = (IF s.switched THEN TRUE ELSE force_keyframe)
                  /\ kf_due' = (kf_due \/ s.switched)
                  /\ active_monitor' =
                        IF s.switched
                        THEN resolve_active_monitor(Monitors, s.current_monitor_index,
                                                    s.capturer.width, s.capturer.height)
                        ELSE active_monitor
       ELSE /\ cap_ctor' = "none"
            /\ enc_ctor' = "none"
            /\ UNCHANGED << current_monitor_index, capturer, encoder, force_keyframe,
                            kf_due, active_monitor >>
    /\ pc' = "apply_settings"
    /\ UNCHANGED << result, sent, encoding_settings, frame_interval, capture_timeout_ms,
                    input_injector, pending_encoding_settings, frame_seq, requesting_kf,
                    encoded_frames, io_error, kf_requested, seq_base >>

\* faulty variant of ApplyEncodingSettings: the echo is sent only when the settings
\* were replaced
ApplyEncodingSettings_echo_on_change ==
    /\ pc = "apply_settings"
    /\ pending_encoding_settings' = None
    /\ pending_order' = Taken(pending_order, "settings")
    /\ UNCHANGED << dropped, injected, input_result, aux_vars >>
    /\ IF IsSome(pending_encoding_settings)
       THEN \E codec_ok \in BOOLEAN :
               LET a == apply_encoding_settings(Unwrap(pending_encoding_settings),
                                                encoding_settings, encoder,
                                                capturer.width, capturer.height, codec_ok)
               IN /\ encoding_settings' = a.encoding_settings
                  /\ encoder' = a.encoder
                  /\ enc_ctor' = a.ctor
                  /\ frame_interval' = (IF a.changed
                                        THEN frame_interval_for_fps(a.encoding_settings.fps)
                                        ELSE frame_interval)
                  /\ capture_timeout_ms' =
                        (IF a.changed
                         THEN capture_timeout_ms_for_fps(a.encoding_settings.fps)
                         ELSE capture_timeout_ms)
                  /\ force_keyframe' = (IF a.changed THEN TRUE ELSE force_keyframe)
                  /\ kf_due' = (kf_due \/ a.changed)
                  /\ pc' = (IF a.changed THEN "echo" ELSE "capture")
       ELSE /\ enc_ctor' = "none"
            /\ pc' = "capture"
            /\ UNCHANGED << encoding_settings, encoder, frame_interval,
                            capture_timeout_ms, force_keyframe, kf_due >>
    /\ UNCHANGED << result, sent, current_monitor_index, capturer, active_monitor,
                    input_injector, pending_monitor_switch, frame_seq, requesting_kf,
                    encoded_frames, io_error, cap_ctor, kf_requested, seq_base >>

\* session.rs:214-225: take the pending payload and apply it
ApplyEncodingSettings ==
    /\ pc = "apply_settings"
    /\ pending_encoding_settings' = None
    /\ pending_order' = Taken(pending_order, "settings")
    /\ UNCHANGED << dropped, injected, input_result, aux_vars >>
    /\ IF IsSome(pending_encoding_settings)
       THEN \E codec_ok \in BOOLEAN :
               LET a == apply_encoding_settings(Unwrap(pending_encoding_settings),
                                                encoding_settings, encoder,
                                                capturer.width, capturer.height, codec_ok)
               IN /\ encoding_settings' = a.encoding_settings
                  /\ encoder' = a.encoder
                  /\ enc_ctor' = a.ctor
                  /\ frame_interval' = (IF a.changed
                                        THEN frame_interval_for_fps(a.encoding_settings.fps)
                                        ELSE frame_interval)
                  /\ capture_timeout_ms' =
                        (IF a.changed
                         THEN capture_timeout_ms_for_fps(a.encoding_settings.fps)
                         ELSE capture_timeout_ms)
                  /\ force_keyframe' = (IF a.changed THEN TRUE ELSE force_keyframe)
                  /\ kf_due' = (kf_due \/ a.changed)
                  /\ pc' = "echo"
       ELSE /\ enc_ctor' = "none"
            /\ pc' = "capture"
            /\ UNCHANGED << encoding_settings, encoder, frame_interval,
                            capture_timeout_ms, force_keyframe, kf_due >>
    /\ UNCHANGED << result, sent, current_monitor_index, capturer, active_monitor,
                    input_injector, pending_monitor_switch, frame_seq, requesting_kf,
                    encoded_frames, io_error, cap_ctor, kf_requested, seq_base >>

\* session.rs:227-230: the EncodingSettings state echo
SendSettingsEcho ==
    /\ UNCHANGED << drain_ghosts, aux_vars >>
    /\ pc = "echo"
    /\ sent_count < MaxSent
    /\ \E ok \in BOOLEAN :
          IF ok
          THEN /\ Accepted(encoding_settings_packet(encoding_settings))
               /\ pc' = "capture"
               /\ UNCHANGED << result, io_error >>
          ELSE /\ Return("Ok")
               /\ io_error' = TRUE
               /\ UNCHANGED sent
    /\ UNCHANGED << session_locals, control_state, frame_seq, requesting_kf,
                    encoded_frames, cap_ctor, enc_ctor, kf_requested, kf_due, seq_base >>

\* session.rs:233-249: take the latch, capture_frame, read_nv12
Capture ==
    /\ UNCHANGED << drain_ghosts, aux_vars >>
    /\ pc = "capture"
    /\ force_keyframe' = FALSE
    /\ \E r \in {"frame", "timeout", "capture_err", "read_err"} :
          CASE r = "frame" ->
                  /\ requesting_kf' = force_keyframe
                  /\ pc' = "encode"
                  /\ UNCHANGED result
            [] r = "timeout" ->
                  \* `continue`: requesting_kf goes out of scope
                  /\ requesting_kf' = FALSE
                  /\ pc' = "drain"
                  /\ UNCHANGED result
            [] OTHER ->
                  /\ requesting_kf' = FALSE
                  /\ Return("Err")
    /\ cap_ctor' = "none"
    /\ enc_ctor' = "none"
    /\ UNCHANGED << sent, session_locals, pending_monitor_switch,
                    pending_encoding_settings, frame_seq, encoded_frames, io_error,
                    kf_requested, kf_due, seq_base >>

\* session.rs:251-253: encode with the value taken from the latch
Encode ==
    /\ UNCHANGED << drain_ghosts, aux_vars >>
    /\ pc = "encode"
    /\ kf_requested' = FALSE
    /\ requesting_kf' = FALSE        \* not read again in this iteration
    /\ \E ok \in BOOLEAN :
          IF ok
          THEN \E gop_key \in BOOLEAN, n_out \in 0..(Len(encoder.queue) + 1) :
                  LET e == AmfEncode(encoder, requesting_kf, gop_key, n_out) IN
                  /\ Len(e.encoder.queue) <= MaxEncLatency
                  /\ encoder' = e.encoder
                  /\ encoded_frames' = e.frames
                  /\ pc' = (IF e.frames = <<>> THEN "drain" ELSE "send")
                  /\ UNCHANGED result
          ELSE /\ Return("Err")
               /\ UNCHANGED << encoder, encoded_frames >>
    /\ UNCHANGED << sent, encoding_settings, frame_interval, capture_timeout_ms,
                    current_monitor_index, capturer, active_monitor, input_injector,
                    control_state, frame_seq, io_error, cap_ctor, enc_ctor, kf_due,
                    seq_base >>

\* session.rs:255-266: one turn of the loop over encoded_frames
SendVideo ==
    /\ UNCHANGED << drain_ghosts, aux_vars >>
    /\ pc = "send"
    /\ sent_count < MaxSent
    /\ LET ef == Head(encoded_frames)
           packet == build_video_packet(ef, frame_seq, U32OfNat(ef.pts), ef.is_keyframe)
       IN /\ frame_seq' = WrappingAdd1(frame_seq)
          /\ \E ok \in BOOLEAN :
                IF ok
                THEN /\ Accepted(packet)
                     /\ encoded_frames' = Tail(encoded_frames)
                     /\ pc' = (IF Tail(encoded_frames) = <<>> THEN "drain" ELSE "send")
                     /\ kf_due' = FALSE
                     /\ UNCHANGED << result, io_error >>
                ELSE /\ Return("Ok")
                     /\ io_error' = TRUE
                     /\ UNCHANGED << sent, encoded_frames, kf_due >>
    /\ UNCHANGED << session_locals, control_state, requesting_kf, cap_ctor, enc_ctor,
                    kf_requested, seq_base >>

Next ==
    \/ SendMonitorList
    \/ Construct
    \/ SendInitialSettings
    \/ Drain
    \/ ApplyMonitorSwitch
    \/ ApplyEncodingSettings
    \/ SendSettingsEcho
    \/ Capture
    \/ Encode
    \/ SendVideo

Spec == Init /\ [][Next]_vars

(***************************************************************************)
(* The same session with the drain observed: which packet the last drain   *)
(* step dropped, which input event it handed to the injector, and in which *)
(* order the pending slots were written.                                   *)
(***************************************************************************)
\* what handle_binary_control_message does with the result r of recv_packet;
\* a well-formed input packet is ignored when there is no injector
\* (session.rs:425-428, 435-438), and otherwise the injection call returns Ok
\* or Err (429-431, 439-445)
Observe(r) ==
    IF r.kind = "packet"
    THEN LET h == handle_binary_control_message(
                      r.data, force_keyframe, pending_monitor_switch,
                      pending_encoding_settings, input_injector)
             event == handle_binary_control_message(
                          r.data, force_keyframe, pending_monitor_switch,
                          pending_encoding_settings, TRUE).injected
         IN /\ dropped' = IsDropCase(r.data)
            /\ injected' = h.injected
            /\ pending_order' = (IF h.filled = "none" THEN pending_order
                                 ELSE Arrived(pending_order, h.filled))
            /\ IF ~IsSome(event) THEN input_result' = None
               ELSE IF ~input_injector THEN input_result' = Some("unavailable")
               ELSE \E call \in {"Ok", "Err"} : input_result' = Some(call)
    ELSE /\ dropped' = FALSE
         /\ injected' = None
         /\ input_result' = None
         /\ UNCHANGED pending_order

\* the packets the client sends while the drain is observed: every kind of
\* malformed packet, and one well-formed packet of each type
ObservedPackets ==
    { Pkt(8, 2, 0, NoBody),
      Pkt(16, 9, 0, NoBody),
      Pkt(20, 5, 11, [type |-> "MonitorSelect", index |-> 1]),
      Pkt(27, 5, 11, [type |-> "garbage"]),
      Pkt(30, 6, 64, SettingsBody(5, 1, 0, Some(<<"v", "p", "9">>))),
      Pkt(80, 6, 64, [type |-> "garbage"]),
      Pkt(30, 7, 24, [type |-> "MouseInput", kind |-> "move"]),
      Pkt(40, 7, 24, [type |-> "garbage"]),
      Pkt(17, 8, 24, [type |-> "KeyboardInput", key_code |-> 65, down |-> TRUE]),
      Pkt(40, 8, 24, [type |-> "garbage"]),
      Pkt(16, 2, 0, NoBody),
      Pkt(16, 3, 0, NoBody),
      Pkt(27, 5, 11, [type |-> "MonitorSelect", index |-> 1]),
      Pkt(80, 6, 64, SettingsBody(5, 1, 0, Some(<<"v", "p", "9">>))),
      Pkt(40, 7, 24, [type |-> "MouseInput", kind |-> "move"]),
      Pkt(40, 8, 24, [type |-> "KeyboardInput", key_code |-> 65, down |-> TRUE]) }

ObservedResults == {[kind |-> "err"], [kind |-> "none"]}
                   \cup {[kind |-> "packet", data |-> d] : d \in ObservedPackets}

ObservedDrain ==
    /\ pc = "drain"
    /\ \E r \in ObservedResults : drain_step(r) /\ Observe(r)
    /\ UNCHANGED << sent, session_locals, frame_seq, requesting_kf, encoded_frames,
                    cap_ctor, enc_ctor, kf_due, seq_base >>
    /\ UNCHANGED aux_vars

ObservedNext ==
    \/ SendMonitorList
    \/ Construct
    \/ SendInitialSettings
    \/ ObservedDrain
    \/ ApplyMonitorSwitch
    \/ ApplyEncodingSettings
    \/ SendSettingsEcho
    \/ Capture
    \/ Encode
    \/ SendVideo

ObservedSpec == Init /\ [][ObservedNext]_vars

(***************************************************************************)
(* A session that has been streaming for a long time: 2^32 - 2 VideoFrame  *)
(* packets have been sent, the client has just had the encoder rebuilt     *)
(* with the default settings, and the thread is at the top of the steady   *)
(* loop.  sent_count, video_sent and last_sent then describe the packets   *)
(* sent from this point on, and seq_base the VideoFrame packets before it. *)
(***************************************************************************)
LateInit ==
    /\ pc = "drain"
    /\ result = "running"
    /\ sent_count = 0
    /\ video_sent = 0
    /\ last_sent = None
    /\ encoding_settings = DefaultEncodingSettings
    /\ frame_interval = frame_interval_for_fps(DefaultEncodingSettings.fps)
    /\ capture_timeout_ms = capture_timeout_ms_for_fps(DefaultEncodingSettings.fps)
    /\ current_monitor_index = 0
    /\ capturer = Unwrap(DdaCaptureNew(0, TRUE))
    /\ encoder = Unwrap(AmfEncoderNew(
                     encoder_config(Monitors[1].width, Monitors[1].height,
                                    DefaultEncodingSettings), TRUE))
    /\ active_monitor = resolve_active_monitor(Monitors, 0, Monitors[1].width,
                                               Monitors[1].height)
    /\ input_injector = TRUE
    /\ force_keyframe = TRUE
    /\ pending_monitor_switch = None
    /\ pending_encoding_settings = None
    /\ frame_seq = <<65535, 65534>>
    /\ requesting_kf = FALSE
    /\ encoded_frames = <<>>
    /\ io_error = FALSE
    /\ cap_ctor = "none"
    /\ enc_ctor = "none"
    /\ kf_requested = FALSE
    /\ kf_due = FALSE
    /\ seq_base = <<65535, 65534>>
    /\ dropped = FALSE
    /\ injected = None
    /\ pending_order = <<>>
    /\ input_result = None
    /\ AuxIdle

SpecWrap == (Init \/ LateInit) /\ [][Next]_vars

(***************************************************************************)
(* Properties.                                                             *)
(***************************************************************************)
IsVideo(p) == p.tag = 1
IsSettings(p) == p.tag = 6
HasFlag(flags, bit) == (flags \div bit) % 2 = 1

\* (s + n) mod 2^32 for a u32 s and a small natural n
U32Plus(s, n) ==
    LET lo == s[2] + n IN <<(s[1] + lo \div 65536) % 65536, lo % 65536>>

\* C1: the first packet the transport gets is a MonitorList frame (type byte
\* 0x04), the second an EncodingSettings frame (0x06), and a VideoFrame is
\* never among the first two.
C1_InitialPackets ==
    IsSome(last_sent) =>
        /\ sent_count = 1 => Unwrap(last_sent).tag = 4
        /\ sent_count = 2 => Unwrap(last_sent).tag = 6
        /\ IsVideo(Unwrap(last_sent)) => sent_count >= 3

C1_Witness ==
    /\ sent_count = 3
    /\ IsSome(last_sent)
    /\ IsVideo(Unwrap(last_sent))

\* C2: the k-th VideoFrame packet of a session (k = 0, 1, ...) carries
\* sequence k mod 2^32.
C2_SequenceIsCount ==
    (IsSome(last_sent) /\ IsVideo(Unwrap(last_sent))) =>
        Unwrap(last_sent).sequence = U32Plus(seq_base, video_sent - 1)

\* the counter has wrapped: packet number 2^32 carries sequence 0 again
C2_Witness ==
    /\ seq_base = <<65535, 65534>>
    /\ video_sent = 3
    /\ IsSome(last_sent)
    /\ IsVideo(Unwrap(last_sent))
    /\ Unwrap(last_sent).sequence = U32Zero
    /\ current_monitor_index = 1

C4_RequestReachesEncode ==
    (pc = "encode" /\ kf_requested) => requesting_kf

\* C5: a VideoFrame packet has END_OF_FRAME set, KEYFRAME set iff the encoder
\* marked the access unit a keyframe, and no other flag bit.
C5_VideoFlags ==
    (IsSome(last_sent) /\ IsVideo(Unwrap(last_sent))) =>
        LET p == Unwrap(last_sent) IN
        /\ p.flags \in 0..3
        /\ HasFlag(p.flags, 2)
        /\ HasFlag(p.flags, 1) <=> p.payload.is_keyframe

C5_Witness ==
    /\ IsSome(last_sent)
    /\ IsVideo(Unwrap(last_sent))
    /\ ~Unwrap(last_sent).payload.is_keyframe
    /\ Unwrap(last_sent).flags = 2

SettingsInRange(fps, bitrate, kf) ==
    /\ 24 <= fps /\ fps <= 120
    /\ 2000000 <= bitrate /\ bitrate <= 80000000
    /\ 1 <= kf /\ kf <= 10

\* C6: the active settings and every EncodingSettings frame sent are inside
\* [24,120] x [2e6,8e7] x [1,10]; every such frame carries the active settings;
\* an applied request {fps 5, bitrate 1, keyframe_interval 0} becomes
\* {24, 2000000, 1}.
C6_SettingsClamped ==
    /\ SettingsInRange(encoding_settings.fps, encoding_settings.bitrate,
                       encoding_settings.keyframe_interval_secs)
    /\ [][/\ SettingsInRange(encoding_settings'.fps, encoding_settings'.bitrate,
                             encoding_settings'.keyframe_interval_secs)
          /\ (sent_count' # sent_count /\ IsSettings(Unwrap(last_sent'))) =>
                LET e == Unwrap(last_sent').payload IN
                /\ SettingsInRange(e.fps, e.bitrate, e.keyframe_interval)
                /\ e.fps = encoding_settings.fps
                /\ e.bitrate = encoding_settings.bitrate
                /\ e.keyframe_interval = encoding_settings.keyframe_interval_secs
          /\ (/\ pc = "apply_settings"
              /\ IsSome(pending_encoding_settings)
              /\ Unwrap(pending_encoding_settings).fps = 5
              /\ Unwrap(pending_encoding_settings).bitrate = 1
              /\ Unwrap(pending_encoding_settings).keyframe_interval = 0
              /\ enc_ctor' = "ok") =>
                /\ encoding_settings'.fps = 24
                /\ encoding_settings'.bitrate = 2000000
                /\ encoding_settings'.keyframe_interval_secs = 1
                /\ pc' = "echo"
         ]_vars

\* the clamped values of {5, 1, 0} have been echoed
C6_Witness ==
    /\ sent_count >= 3
    /\ IsSome(last_sent)
    /\ IsSettings(Unwrap(last_sent))
    /\ Unwrap(last_sent).payload.fps = 24
    /\ Unwrap(last_sent).payload.bitrate = 2000000
    /\ Unwrap(last_sent).payload.keyframe_interval = 1

\* C7: a payload that clamps and resolves to the active settings constructs
\* no encoder and leaves encoder, settings, frame interval, capture timeout
\* and keyframe latch as they were.
C7_UnchangedSettingsNoOp ==
    [][(/\ pc = "apply_settings"
        /\ IsSome(pending_encoding_settings)
        /\ next_settings_of(Unwrap(pending_encoding_settings), encoding_settings)
              = encoding_settings) =>
          /\ enc_ctor' = "none"
          /\ encoder' = encoder
          /\ encoding_settings' = encoding_settings
          /\ frame_interval' = frame_interval
          /\ capture_timeout_ms' = capture_timeout_ms
          /\ force_keyframe' = force_keyframe]_vars

\* a payload was taken and no encoder was constructed, on a non-default state
C7_Witness ==
    /\ pc = "echo"
    /\ enc_ctor = "none"
    /\ encoding_settings # DefaultEncodingSettings
    /\ ~force_keyframe

\* C8: when the replacement encoder cannot be constructed the session goes on
\* with the previous encoder, settings, frame interval and capture timeout, and
\* the request does not set the keyframe latch.
C8_EncoderFailureKeepsState ==
    [][(pc = "apply_settings" /\ enc_ctor' = "fail") =>
          /\ pc' = "echo"
          /\ result' = "running"
          /\ encoder' = encoder
          /\ encoding_settings' = encoding_settings
          /\ frame_interval' = frame_interval
          /\ capture_timeout_ms' = capture_timeout_ms
          /\ force_keyframe' = force_keyframe]_vars

C8_Witness ==
    /\ pc = "echo"
    /\ enc_ctor = "fail"
    /\ ~force_keyframe

\* C9: a monitor switch whose capture engine or encoder cannot be constructed
\* (an index that names no output included) changes nothing and keeps the
\* session alive; a switch that succeeds changes capture engine, encoder,
\* monitor index and geometry together.
C9_SwitchAllOrNothing ==
    [][(pc = "apply_monitor" /\ IsSome(pending_monitor_switch)) =>
          LET idx == Unwrap(pending_monitor_switch) IN
          /\ pc' = "apply_settings" /\ result' = "running"
          /\ (idx # current_monitor_index /\ idx >= Len(Monitors)) => cap_ctor' = "fail"
          /\ (cap_ctor' = "fail" \/ enc_ctor' = "fail") =>
                /\ capturer' = capturer
                /\ encoder' = encoder
                /\ current_monitor_index' = current_monitor_index
                /\ active_monitor' = active_monitor
                /\ force_keyframe' = force_keyframe
          /\ (cap_ctor' = "ok" /\ enc_ctor' = "ok") =>
                /\ current_monitor_index' = idx
                /\ capturer'.monitor_index = idx
                /\ capturer'.width = Monitors[idx + 1].width
                /\ capturer'.height = Monitors[idx + 1].height
                /\ encoder'.width = capturer'.width
                /\ encoder'.height = capturer'.height
                /\ encoder'.frame_index = 0
                /\ active_monitor'.left = Monitors[idx + 1].left
                /\ active_monitor'.width = Monitors[idx + 1].width
                /\ force_keyframe'
          /\ (cap_ctor' = "none") =>
                /\ idx = current_monitor_index
                /\ capturer' = capturer /\ encoder' = encoder]_vars

\* the capture engine of monitor 1 was built, its encoder was not
C9_Witness ==
    /\ pc = "apply_settings"
    /\ cap_ctor = "ok"
    /\ enc_ctor = "fail"
    /\ current_monitor_index = 0
    /\ ~force_keyframe

\* C10: the step in which send_packet or recv_packet reports an error ends
\* run_client_service, and nothing is sent, captured or encoded after it.
C10_TransportErrorEndsSession ==
    [][/\ io_error' => (pc' = "done" /\ result' # "running")
       /\ ~io_error]_vars

C10_Witness ==
    /\ io_error
    /\ pc = "done"
    /\ sent_count >= 3
    /\ encoded_frames # <<>>

\* C11: a capture_frame failure other than the no-frame timeout does not end
\* the session by itself: the session leaves the capture step closed only
\* when a DdaCapture::new made for the same monitor index in that step failed.
C11_DeviceLossRebuilds ==
    [][(pc = "capture" /\ pc' = "done") => cap_ctor' = "fail"]_vars

\* C12: a control packet that is shorter than 16 bytes, of an unknown type, or
\* a MonitorSelect / EncodingSettings / MouseInput / KeyboardInput packet with
\* a truncated or unparsable payload is dropped: the keyframe latch and both
\* pending slots keep their values, nothing is injected, and the session goes
\* on draining.
C12_MalformedPacketDropped ==
    [][dropped' => /\ force_keyframe' = force_keyframe
                   /\ pending_monitor_switch' = pending_monitor_switch
                   /\ pending_encoding_settings' = pending_encoding_settings
                   /\ pending_order' = pending_order
                   /\ injected' = None
                   /\ pc' = "drain"
                   /\ result' = "running"]_vars

C12_Witness ==
    /\ dropped
    /\ pc = "drain"
    /\ input_injector
    /\ ~force_keyframe
    /\ IsSome(pending_monitor_switch)
    /\ IsSome(pending_encoding_settings)

\* C13: control packets take effect in arrival order.  An input event is handed
\* to the injector by the drain step that takes its packet; the drain itself
\* applies no monitor switch and no settings change; and after the drain a
\* pending monitor switch or settings change is applied only when no change
\* that arrived before it is still pending.
C13_AppliedInArrivalOrder ==
    [][/\ IsSome(injected') => pc = "drain"
       /\ pc = "drain" => UNCHANGED session_locals
       /\ (pc = "apply_monitor" /\ IsSome(pending_monitor_switch))
             => Head(pending_order) = "monitor"
       /\ (pc = "apply_settings" /\ IsSome(pending_encoding_settings))
             => Head(pending_order) = "settings"]_vars

(***************************************************************************)
(* Several clients at once.  WebTransportServer::handle_client (and the    *)
(* WebRTC on_open callback) start run_client_service on a thread of its    *)
(* own for every connection, handing it clones of the two Arc values; all  *)
(* the rest of a session's state is local to its run_client_service call.  *)
(* sessions[s] holds those locals of session s.                            *)
(***************************************************************************)
SessionIds == {"a", "b"}

\* video frames a session sends in the multi-session specification
MaxMultiFrames == 1

\* the control packets the clients send in the multi-session specification
MultiPackets ==
    { Pkt(16, 2, 0, NoBody),
      Pkt(27, 5, 11, [type |-> "MonitorSelect", index |-> 1]),
      Pkt(80, 6, 64, SettingsBody(5, 1, 0, Some(<<"v", "p", "9">>))) }

\* the locals of run_client_service when it is entered
NewSession ==
    [pc |-> "start", result |-> "running",
     current_monitor_index |-> 0, encoding_settings |-> DefaultEncodingSettings,
     force_keyframe |-> TRUE, pending_monitor_switch |-> None,
     pending_encoding_settings |-> None, frame_seq |-> U32Zero,
     capturer |-> NoCapturer, encoder |-> NoEncoder]

Closed(st, r) == [st EXCEPT !.pc = "done", !.result = r]

MultiInit ==
    /\ SessionInit
    /\ sessions = [s \in SessionIds |-> NewSession]
    /\ monitors = Monitors
    /\ monitor_list_json = monitor_list_packet.payload
    /\ CodecIdle
    /\ WtIdle
    /\ RtcIdle
    /\ RestIdle

\* session.rs:125-176 for session s: monitor list, construction, initial state frame
MStart(s) ==
    /\ sessions[s].pc = "start"
    /\ \E list_ok \in BOOLEAN, device_ok \in BOOLEAN, codec_ok \in BOOLEAN, state_ok \in BOOLEAN :
          LET st == sessions[s]
              c == DdaCaptureNew(st.current_monitor_index, device_ok)
              e == IF IsSome(c)
                   THEN AmfEncoderNew(encoder_config(Unwrap(c).width, Unwrap(c).height,
                                                     st.encoding_settings), codec_ok)
                   ELSE None
          IN sessions' = [sessions EXCEPT ![s] =
                 IF ~list_ok \/ ~IsSome(c) \/ ~IsSome(e) THEN Closed(st, "Err")
                 ELSE IF ~state_ok
                      THEN Closed([st EXCEPT !.capturer = Unwrap(c), !.encoder = Unwrap(e)], "Ok")
                      ELSE [st EXCEPT !.capturer = Unwrap(c), !.encoder = Unwrap(e),
                                      !.pc = "drain"]]
    /\ UNCHANGED << monitors, monitor_list_json, vars, not_multi >>

\* faulty variant of MDrain: the keyframe latch is one flag shared by all sessions
MDrain_shared_latch(s) ==
    /\ sessions[s].pc = "drain"
    /\ \E r \in {[kind |-> "err"], [kind |-> "none"]}
                \cup {[kind |-> "packet", data |-> d] : d \in MultiPackets} :
          LET st == sessions[s] IN
          CASE r.kind = "err" -> sessions' = [sessions EXCEPT ![s] = Closed(st, "Ok")]
            [] r.kind = "none" -> sessions' = [sessions EXCEPT ![s].pc = "apply"]
            [] r.kind = "packet" ->
                  LET h == handle_binary_control_message(
                               r.data, st.force_keyframe, st.pending_monitor_switch,
                               st.pending_encoding_settings, FALSE)
                  IN sessions' = [t \in SessionIds |->
                         IF t = s
                         THEN [st EXCEPT !.force_keyframe = h.force_keyframe,
                                         !.pending_monitor_switch = h.pending_monitor_switch,
                                         !.pending_encoding_settings = h.pending_encoding_settings]
                         ELSE [sessions[t] EXCEPT !.force_keyframe =
                                   sessions[t].force_keyframe \/ h.force_keyframe]]
    /\ UNCHANGED << monitors, monitor_list_json, vars, not_multi >>

\* one turn of the drain loop of session s (session.rs:179-194, 355-387)
MDrain(s) ==
    /\ sessions[s].pc = "drain"
    /\ \E r \in {[kind |-> "err"], [kind |-> "none"]}
                \cup {[kind |-> "packet", data |-> d] : d \in MultiPackets} :
          LET st == sessions[s] IN
          CASE r.kind = "err" -> sessions' = [sessions EXCEPT ![s] = Closed(st, "Ok")]
            [] r.kind = "none" -> sessions' = [sessions EXCEPT ![s].pc = "apply"]
            [] r.kind = "packet" ->
                  LET h == handle_binary_control_message(
                               r.data, st.force_keyframe, st.pending_monitor_switch,
                               st.pending_encoding_settings, FALSE)
                  IN sessions' = [sessions EXCEPT ![s] =
                         [st EXCEPT !.force_keyframe = h.force_keyframe,
                                    !.pending_monitor_switch = h.pending_monitor_switch,
                                    !.pending_encoding_settings = h.pending_encoding_settings]]
    /\ UNCHANGED << monitors, monitor_list_json, vars, not_multi >>

\* session.rs:196-230 for session s: the pending monitor switch, the pending
\* settings, and the state echo
MApply(s) ==
    /\ sessions[s].pc = "apply"
    /\ \E device_ok \in BOOLEAN, codec_ok \in BOOLEAN, echo_ok \in BOOLEAN :
          LET st == sessions[s]
              sw == IF IsSome(st.pending_monitor_switch)
                    THEN switch_monitor(Unwrap(st.pending_monitor_switch),
                                        st.current_monitor_index, st.capturer, st.encoder,
                                        st.encoding_settings, device_ok, codec_ok)
                    ELSE [switched |-> FALSE, current_monitor_index |-> st.current_monitor_index,
                          capturer |-> st.capturer, encoder |-> st.encoder,
                          cap_ctor |-> "none", enc_ctor |-> "none"]
              ap == IF IsSome(st.pending_encoding_settings)
                    THEN apply_encoding_settings(Unwrap(st.pending_encoding_settings),
                                                 st.encoding_settings, sw.encoder,
                                                 sw.capturer.width, sw.capturer.height,
                                                 codec_ok)
                    ELSE [changed |-> FALSE, encoding_settings |-> st.encoding_settings,
                          encoder |-> sw.encoder, ctor |-> "none"]
              applied == [st EXCEPT !.pending_monitor_switch = None,
                                    !.pending_encoding_settings = None,
                                    !.current_monitor_index = sw.current_monitor_index,
                                    !.capturer = sw.capturer,
                                    !.encoding_settings = ap.encoding_settings,
                                    !.encoder = ap.encoder,
                                    !.force_keyframe =
                                        st.force_keyframe \/ sw.switched \/ ap.changed]
          IN sessions' = [sessions EXCEPT ![s] =
                 IF IsSome(st.pending_encoding_settings) /\ ~echo_ok
                 THEN Closed(applied, "Ok")
                 ELSE [applied EXCEPT !.pc = "frame"]]
    /\ UNCHANGED << monitors, monitor_list_json, vars, not_multi >>

\* session.rs:233-266 for session s: capture, encode and send one frame
MFrame(s) ==
    /\ sessions[s].pc = "frame"
    /\ \E r \in {"sent", "timeout", "capture_err", "encode_err", "send_err"} :
          LET st == sessions[s]
              taken == [st EXCEPT !.force_keyframe = FALSE]
              e == AmfEncode(st.encoder, st.force_keyframe, FALSE, 1)
          IN CASE r = "timeout" -> sessions' = [sessions EXCEPT ![s] = [taken EXCEPT !.pc = "drain"]]
               [] r = "capture_err" -> sessions' = [sessions EXCEPT ![s] = Closed(taken, "Err")]
               [] r = "encode_err" -> sessions' = [sessions EXCEPT ![s] = Closed(taken, "Err")]
               [] r = "send_err" ->
                     sessions' = [sessions EXCEPT ![s] =
                         Closed([taken EXCEPT !.encoder = e.encoder,
                                              !.frame_seq = WrappingAdd1(st.frame_seq)], "Ok")]
               [] r = "sent" ->
                     /\ st.frame_seq[2] < MaxMultiFrames
                     /\ sessions' = [sessions EXCEPT ![s] =
                            [taken EXCEPT !.encoder = e.encoder,
                                          !.frame_seq = WrappingAdd1(st.frame_seq),
                                          !.pc = "drain"]]
    /\ UNCHANGED << monitors, monitor_list_json, vars, not_multi >>

MultiNext ==
    \E s \in SessionIds :
        \/ MStart(s)
        \/ MDrain(s)
        \/ MApply(s)
        \/ MFrame(s)

all_vars == << vars, aux_vars >>

MultiSpec == MultiInit /\ [][MultiNext]_all_vars

to_le_bytes(u) == << u[2] % 256, u[2] \div 256, u[1] % 256, u[1] \div 256 >>

\* u32::from_le_bytes
from_le_bytes(b) == << b[3] + 256 * b[4], b[1] + 256 * b[2] >>

\* FrameFlags::from_bits_truncate: the bits that are not flags are cleared
from_bits_truncate(b) == b % (2 * FLAG_END_OF_FRAME)

\* FrameHeader::to_bytes
to_bytes(h) ==
    << TypeByte(h.frame_type), h.flags >>
    \o to_le_bytes(h.sequence) \o to_le_bytes(h.pts) \o to_le_bytes(h.payload_len)
    \o << 0, 0 >>

\* FrameHeader::from_bytes
from_bytes(buf) ==
    LET frame_type == FrameTypeOfByte(buf[1]) IN
    IF ~IsSome(frame_type) THEN None
    ELSE Some([frame_type |-> Unwrap(frame_type),
               flags |-> from_bits_truncate(buf[2]),
               sequence |-> from_le_bytes(SubSeq(buf, 3, 6)),
               pts |-> from_le_bytes(SubSeq(buf, 7, 10)),
               payload_len |-> from_le_bytes(SubSeq(buf, 11, 14))])

\* the type tags of the protocol
FrameTypes ==
    {"VideoFrame", "KeyframeRequest", "Stats", "MonitorList", "MonitorSelect",
     "EncodingSettings", "MouseInput", "KeyboardInput", "Ping", "Pong"}

\* 32-bit values given to the codec: 0, 1, 0x01020304, 0x8000FFFF, 2^32 - 1
U32Inputs == { U32Zero, <<0, 1>>, <<258, 772>>, <<32768, 65535>>, U32Max }

\* headers given to to_bytes
HeaderInputs ==
    { [frame_type |-> t, flags |-> f, sequence |-> sq, pts |-> p, payload_len |-> l] :
        t \in FrameTypes, f \in {0, FLAG_KEYFRAME, FLAG_END_OF_FRAME,
                                 FLAG_KEYFRAME + FLAG_END_OF_FRAME},
        sq \in U32Inputs, p \in {U32Zero, <<258, 772>>}, l \in {<<0, 1>>, U32Max} }

\* 16-byte buffers given to from_bytes: any first byte, and the other 15 bytes
\* all equal to one filler
RawInputs == { [i \in 1..HEADER_SIZE |-> IF i = 1 THEN b ELSE f] :
                 b \in 0..255, f \in {0, 165, 255} }

CodecInit ==
    /\ SessionInit
    /\ MultiIdle
    /\ WtIdle
    /\ RtcIdle
    /\ RestIdle
    /\ decoded = None
    /\ \/ /\ codec_pc = "to_bytes"
          /\ hdr \in {Some(h) : h \in HeaderInputs}
          /\ wire = <<>>
       \/ /\ codec_pc = "from_bytes"
          /\ hdr = None
          /\ wire \in RawInputs

ToBytes ==
    /\ codec_pc = "to_bytes"
    /\ wire' = to_bytes(Unwrap(hdr))
    /\ codec_pc' = "from_bytes"
    /\ UNCHANGED << hdr, decoded, vars, not_codec >>

FromBytes ==
    /\ codec_pc = "from_bytes"
    /\ decoded' = from_bytes(wire)
    /\ codec_pc' = "done"
    /\ UNCHANGED << hdr, wire, vars, not_codec >>

CodecNext == ToBytes \/ FromBytes

CodecSpec == CodecInit /\ [][CodecNext]_all_vars

\* the bytes of a header as the protocol lays them out
IsLayoutOf(b, h) ==
    /\ Len(b) = 16
    /\ b[1] = TypeByte(h.frame_type)
    /\ b[2] = h.flags
    /\ \A f \in {[at |-> 3, v |-> h.sequence], [at |-> 7, v |-> h.pts],
                 [at |-> 11, v |-> h.payload_len]} :
          /\ \A i \in 0..3 : b[f.at + i] \in 0..255
          /\ b[f.at] + 256 * b[f.at + 1] = f.v[2]
          /\ b[f.at + 2] + 256 * b[f.at + 3] = f.v[1]
    /\ b[15] = 0
    /\ b[16] = 0

\* C15: for a header of any defined type with flags within {KEYFRAME,
\* END_OF_FRAME}, to_bytes gives the 16 bytes of the layout and from_bytes of
\* those bytes gives back a header equal to it in every field.
C15_HeaderRoundTrip ==
    /\ (codec_pc \in {"from_bytes", "done"} /\ IsSome(hdr)) => IsLayoutOf(wire, Unwrap(hdr))
    /\ (codec_pc = "done" /\ IsSome(hdr)) => decoded = hdr

\* C16: from_bytes returns a header exactly when the first byte is one of the
\* ten defined type tags, whatever the other 15 bytes are.
C16_TenTagsAccepted ==
    codec_pc = "done" =>
        (IsSome(decoded) <=> wire[1] \in {1, 2, 3, 4, 5, 6, 7, 8, 16, 17})

(***************************************************************************)
(* The QUIC stream transport (transport/webtransport.rs) on its own: the   *)
(* peer has written a byte stream, recv_stream.read hands it over in       *)
(* pieces of any size, and the session calls recv_packet.                  *)
(***************************************************************************)
WT_READ_CHUNK_SIZE == 65536
MAX_WT_FRAME_SIZE == 67108864

\* packets the peer frames
MaxWtPackets == 2

U32Gt(a, b) == a[1] > b[1] \/ (a[1] = b[1] /\ a[2] > b[2])
U32Ge(a, b) == a[1] > b[1] \/ (a[1] = b[1] /\ a[2] >= b[2])

Min(a, b) == IF a < b THEN a ELSE b

\* faulty variant of try_take_packet_from_recv_buffer: the whole buffer is
\* drained with the packet
try_take_packet_clears_buffer(buffer) ==
    IF Len(buffer) < 4 THEN [kind |-> "none", buffer |-> buffer]
    ELSE LET packet_len == from_le_bytes(SubSeq(buffer, 1, 4)) IN
         IF U32Gt(packet_len, U32OfNat(MAX_WT_FRAME_SIZE))
         THEN [kind |-> "too_large", buffer |-> buffer]
         ELSE LET framed_len == 4 + (packet_len[1] * 65536 + packet_len[2]) IN
              IF Len(buffer) < framed_len THEN [kind |-> "none", buffer |-> buffer]
              ELSE [kind |-> "packet", packet |-> SubSeq(buffer, 5, framed_len),
                    buffer |-> <<>>]

\* faulty variant of try_take_packet_from_recv_buffer: a declared length equal
\* to the limit is refused as well
try_take_packet_limit_exclusive(buffer) ==
    IF Len(buffer) < 4 THEN [kind |-> "none", buffer |-> buffer]
    ELSE LET packet_len == from_le_bytes(SubSeq(buffer, 1, 4)) IN
         IF U32Ge(packet_len, U32OfNat(MAX_WT_FRAME_SIZE))
         THEN [kind |-> "too_large", buffer |-> buffer]
         ELSE LET framed_len == 4 + (packet_len[1] * 65536 + packet_len[2]) IN
              IF Len(buffer) < framed_len THEN [kind |-> "none", buffer |-> buffer]
              ELSE [kind |-> "packet", packet |-> SubSeq(buffer, 5, framed_len),
                    buffer |-> SubSeq(buffer, framed_len + 1, Len(buffer))]

\* WebTransportIo::try_take_packet_from_recv_buffer: Err, Ok(None) or
\* Ok(Some(packet)), and the buffer it leaves
try_take_packet_from_recv_buffer(buffer) ==
    IF Len(buffer) < 4 THEN [kind |-> "none", buffer |-> buffer]
    ELSE LET packet_len == from_le_bytes(SubSeq(buffer, 1, 4)) IN
         IF U32Gt(packet_len, U32OfNat(MAX_WT_FRAME_SIZE))
         THEN [kind |-> "too_large", buffer |-> buffer]
         ELSE LET framed_len == 4 + (packet_len[1] * 65536 + packet_len[2]) IN
              IF Len(buffer) < framed_len THEN [kind |-> "none", buffer |-> buffer]
              ELSE [kind |-> "packet", packet |-> SubSeq(buffer, 5, framed_len),
                    buffer |-> SubSeq(buffer, framed_len + 1, Len(buffer))]

\* send_packet of the peer: the length prefix and the payload
Framed(packet) == to_le_bytes(U32OfNat(Len(packet))) \o packet

RECURSIVE FramedAll(_)
FramedAll(packets) ==
    IF packets = <<>> THEN <<>> ELSE Framed(Head(packets)) \o FramedAll(Tail(packets))

RECURSIVE SeqsUpTo(_, _)
SeqsUpTo(S, n) ==
    IF n = 0 THEN {<<>>}
    ELSE LET shorter == SeqsUpTo(S, n - 1) IN
         shorter \cup {Append(q, x) : q \in shorter, x \in S}

\* the payloads of those packets; their bytes can be taken for prefix bytes
WtPayloads == { <<>>, <<4>>, <<0, 4>> }

\* what may follow the framed packets on the stream: nothing, or the start of a
\* frame that declares 64 MiB, 64 MiB + 1, or 2^32 - 1 bytes
WtTails ==
    {<<>>} \cup { prefix \o rest : prefix \in {<<0, 0, 0, 4>>, <<1, 0, 0, 4>>,
                                              <<255, 255, 255, 255>>},
                                  rest \in {<<>>, <<4>>} }

WtInit ==
    /\ SessionInit
    /\ MultiIdle
    /\ CodecIdle
    /\ RtcIdle
    /\ RestIdle
    /\ wt_pc = "idle"
    /\ wt_timeout = "zero"
    /\ wt_input \in SeqsUpTo(WtPayloads, MaxWtPackets)
    /\ \E tail \in WtTails : wt_stream = FramedAll(wt_input) \o tail
    /\ recv_buffer = <<>>
    /\ wt_result = [kind |-> "none"]
    /\ wt_delivered = <<>>
    /\ wt_out = <<>>

\* recv_packet returns r
WtReturn(r) ==
    /\ wt_pc' = "idle"
    /\ wt_result' = [kind |-> r.kind]
    /\ recv_buffer' = r.buffer
    /\ wt_delivered' = (IF r.kind = "packet" THEN Append(wt_delivered, r.packet)
                        ELSE wt_delivered)

\* recv_packet is called (webtransport.rs:77-85): a packet that is already
\* complete in the buffer is returned without reading
WtRecvPacket ==
    /\ wt_pc = "idle"
    /\ \E timeout \in {"zero", "positive"} :
          LET t == try_take_packet_from_recv_buffer(recv_buffer) IN
          /\ wt_timeout' = timeout
          /\ IF t.kind = "none"
             THEN /\ wt_pc' = "read"
                  /\ UNCHANGED << recv_buffer, wt_result, wt_delivered >>
             ELSE WtReturn(t)
    /\ UNCHANGED << wt_stream, wt_input, wt_out, vars, not_wt >>

\* one turn of the read loop (webtransport.rs:90-122)
WtRead ==
    /\ wt_pc = "read"
    /\ \E r \in {[kind |-> k, n |-> 0] : k \in {"timeout", "io", "closed", "bytes"}}
                \cup {[kind |-> "bytes", n |-> n] :
                         n \in 1..Min(Len(wt_stream), WT_READ_CHUNK_SIZE)} :
          CASE r.kind = "timeout" ->
                  /\ WtReturn([kind |-> "none", buffer |-> recv_buffer])
                  /\ UNCHANGED wt_stream
            [] r.kind \in {"io", "closed"} ->
                  /\ WtReturn([kind |-> r.kind, buffer |-> recv_buffer])
                  /\ UNCHANGED wt_stream
            [] r.kind = "bytes" /\ r.n = 0 ->
                  UNCHANGED << wt_pc, wt_result, recv_buffer, wt_delivered, wt_stream >>
            [] r.kind = "bytes" /\ r.n > 0 ->
                  LET t == try_take_packet_from_recv_buffer(
                               recv_buffer \o SubSeq(wt_stream, 1, r.n))
                  IN /\ wt_stream' = SubSeq(wt_stream, r.n + 1, Len(wt_stream))
                     /\ IF t.kind = "none"
                        THEN /\ recv_buffer' = t.buffer
                             /\ UNCHANGED << wt_pc, wt_result, wt_delivered >>
                        ELSE WtReturn(t)
    /\ UNCHANGED << wt_timeout, wt_input, wt_out, vars, not_wt >>

\* length of the packets the session sends in the QUIC specification
WtSendLens == {5}

\* WebTransportIo::send_packet (webtransport.rs:60-75): the length prefix and
\* the packet are written to the send stream before the call returns; a
\* write error is the error of the call, after which the session ends
WtSendPacket ==
    /\ wt_pc = "idle"
    /\ Len(wt_out) + Len(wt_delivered) < MaxWtPackets
    /\ \E l \in WtSendLens, ok \in BOOLEAN :
          IF ok
          THEN /\ wt_out' = Append(wt_out, [id |-> Len(wt_out) + 1,
                                            prefix |-> to_le_bytes(U32OfNat(l)), len |-> l])
               /\ UNCHANGED wt_pc
          ELSE /\ wt_pc' = "failed"
               /\ UNCHANGED wt_out
    /\ UNCHANGED << wt_timeout, wt_stream, recv_buffer, wt_result, wt_delivered, wt_input,
                    vars, not_wt >>

WtNext == WtRecvPacket \/ WtRead \/ WtSendPacket

WtSpec == WtInit /\ [][WtNext]_all_vars

IsPrefix(p, q) == Len(p) <= Len(q) /\ SubSeq(q, 1, Len(p)) = p

\* the receive buffer begins with a complete frame
HasCompleteFrame(buffer) ==
    /\ Len(buffer) >= 4
    /\ buffer[3] = 0
    /\ buffer[4] = 0
    /\ Len(buffer) >= 4 + buffer[1] + 256 * buffer[2]

\* C17: recv_packet returns the framed packets byte-identical, in order and
\* once each, however the stream is cut into reads; no byte is lost between
\* calls (what was framed is what has been returned, then what the buffer
\* holds, then what is still to be read); and a call returns none only when
\* the buffer holds no complete frame.
C17_FramesReassembled ==
    /\ IsPrefix(wt_delivered, wt_input)
    /\ \E tail \in WtTails :
          FramedAll(wt_delivered) \o recv_buffer \o wt_stream = FramedAll(wt_input) \o tail
    /\ (wt_pc = "idle" /\ wt_result.kind = "none") => ~HasCompleteFrame(recv_buffer)
    /\ (wt_pc = "idle" /\ wt_result.kind = "none" /\ wt_stream = <<>>)
          => wt_delivered = wt_input

C17_Witness ==
    /\ wt_pc = "idle"
    /\ wt_timeout = "zero"
    /\ wt_result.kind = "none"
    /\ Len(wt_delivered) = 1
    /\ Len(wt_input) = 2
    /\ Len(recv_buffer) = 5
    /\ wt_stream # <<>>

\* the length prefix at the head of the buffer declares more than 64 MiB
\* (67,108,864 = 1024 * 65536)
DeclaresOversize(buffer) ==
    /\ Len(buffer) >= 4
    /\ LET lo == buffer[1] + 256 * buffer[2]
           hi == buffer[3] + 256 * buffer[4]
       IN hi > 1024 \/ (hi = 1024 /\ lo > 0)

\* the bytes this step has read from the stream
JustRead == SubSeq(wt_stream, 1, Len(wt_stream) - Len(wt_stream'))

\* the step from the idle transport is a call of recv_packet, not of
\* send_packet
RecvPacketCalled == wt_out' = wt_out /\ wt_pc' # "failed"

\* C18: recv_packet fails as soon as the buffer begins with a prefix declaring
\* more than 64 MiB, whether the prefix was already there when the call began
\* or has just been read, without the payload; it leaves the prefix in the
\* buffer, so the calls after it fail too; a prefix declaring exactly 64 MiB
\* or less is never refused.
C18_OversizeIsFatal ==
    [][/\ (wt_pc = "idle" /\ RecvPacketCalled /\ DeclaresOversize(recv_buffer))
             => /\ wt_pc' = "idle"
                /\ wt_result'.kind = "too_large"
                /\ recv_buffer' = recv_buffer
       /\ (wt_pc = "read" /\ DeclaresOversize(recv_buffer \o JustRead))
             => /\ wt_pc' = "idle"
                /\ wt_result'.kind = "too_large"
                /\ recv_buffer' = recv_buffer \o JustRead
       /\ wt_result'.kind = "too_large" => DeclaresOversize(recv_buffer')]_all_vars

C18_Witness ==
    /\ wt_pc = "idle"
    /\ wt_result.kind = "too_large"
    /\ recv_buffer = <<1, 0, 0, 4>>
    /\ Len(wt_delivered) = 1
    /\ wt_stream # <<>>

(***************************************************************************)
(* The WebRTC data-channel transport (transport/webrtc.rs) on its own.  A  *)
(* packet is known by an id and its length; a slice packet[from..to] of it *)
(* is the record of the id and the two positions, so that equal slices are *)
(* equal bytes.  The 8 prefix bytes of a message are bytes.                *)
(***************************************************************************)
MAX_CHUNK_SIZE == 60000

\* packets the session sends in the WebRTC specification
MaxRtcPackets == 2

\* their lengths
RtcPacketLens == {0, 1, 60000, 60001, 120001}

\* lengths of the packet the client sends in chunks
RtcClientLens == {100, 60001, 120001}

\* webrtc.rs:123
chunk_size_of(total_len, offset) == Min(MAX_CHUNK_SIZE, total_len - offset)

\* faulty variant of chunk_of: the second prefix field is the end of the chunk
chunk_of_end_offset(packet, offset) ==
    LET chunk_size == chunk_size_of(packet.len, offset) IN
    [id |-> packet.id, len |-> packet.len,
     prefix |-> to_le_bytes(U32OfNat(packet.len)) \o to_le_bytes(U32OfNat(offset + chunk_size)),
     from |-> offset, to |-> offset + chunk_size]

\* webrtc.rs:123-127: the message built for the chunk at offset
chunk_of(packet, offset) ==
    LET chunk_size == chunk_size_of(packet.len, offset) IN
    [id |-> packet.id, len |-> packet.len,
     prefix |-> to_le_bytes(U32OfNat(packet.len)) \o to_le_bytes(U32OfNat(offset)),
     from |-> offset, to |-> offset + chunk_size]

\* the chunks a client makes of a packet in the same format
ClientChunks(packet) ==
    { chunk_of(packet, k * MAX_CHUNK_SIZE) :
        k \in 0..((packet.len + MAX_CHUNK_SIZE - 1) \div MAX_CHUNK_SIZE - 1) }

\* the two channels exist, the sender task is spawned, the data channel is open
RtcInit ==
    /\ SessionInit
    /\ MultiIdle
    /\ CodecIdle
    /\ WtIdle
    /\ RestIdle
    /\ srv_rx = <<>>
    /\ rtc_cur = None
    /\ rtc_sender = "running"
    /\ rtc_wire = <<>>
    /\ rtc_done = <<>>
    /\ \E l \in RtcClientLens : rtc_client = ClientChunks([id |-> "client", len |-> l])
    /\ io_rx = <<>>
    /\ rtc_received = <<>>
    /\ rtc_drain = None

\* WebRtcIo::send_packet (webrtc.rs:17-25): Ok once the packet is queued, Err
\* when the sender task is gone
RtcSendPacket ==
    /\ rtc_drain = None
    /\ Len(rtc_done) + Len(srv_rx) + Len(rtc_cur) < MaxRtcPackets
    /\ IF rtc_sender = "running"
       THEN \E l \in RtcPacketLens :
               srv_rx' = Append(srv_rx, [id |-> Len(rtc_done) + Len(srv_rx) + Len(rtc_cur) + 1,
                                         len |-> l])
       ELSE UNCHANGED srv_rx
    /\ UNCHANGED << rtc_cur, rtc_sender, rtc_wire, rtc_done, rtc_client, io_rx,
                    rtc_received, rtc_drain, vars, not_rtc >>

\* faulty variant of RtcTakePacket: the newest queued packet is taken
RtcTakePacket_newest_first ==
    /\ rtc_sender = "running"
    /\ rtc_cur = None
    /\ srv_rx # <<>>
    /\ srv_rx' = SubSeq(srv_rx, 1, Len(srv_rx) - 1)
    /\ LET packet == srv_rx[Len(srv_rx)] IN
       IF 0 < packet.len
       THEN /\ rtc_cur' = Some([packet |-> packet, offset |-> 0])
            /\ UNCHANGED rtc_done
       ELSE /\ rtc_cur' = None
            /\ rtc_done' = Append(rtc_done, packet)
    /\ UNCHANGED << rtc_sender, rtc_wire, rtc_client, io_rx, rtc_received, rtc_drain, vars, not_rtc >>

\* the sender task takes the next packet (webrtc.rs:114-121)
RtcTakePacket ==
    /\ rtc_sender = "running"
    /\ rtc_cur = None
    /\ srv_rx # <<>>
    /\ srv_rx' = Tail(srv_rx)
    /\ LET packet == Head(srv_rx) IN
       IF 0 < packet.len
       THEN /\ rtc_cur' = Some([packet |-> packet, offset |-> 0])
            /\ UNCHANGED rtc_done
       ELSE /\ rtc_cur' = None
            /\ rtc_done' = Append(rtc_done, packet)
    /\ UNCHANGED << rtc_sender, rtc_wire, rtc_client, io_rx, rtc_received, rtc_drain, vars, not_rtc >>

\* one turn of the chunk loop (webrtc.rs:122-135)
RtcSendChunk ==
    /\ rtc_sender = "running"
    /\ rtc_cur # None
    /\ LET packet == Unwrap(rtc_cur).packet
           offset == Unwrap(rtc_cur).offset
           next == offset + chunk_size_of(packet.len, offset)
       IN \E ok \in BOOLEAN :
             IF ok
             THEN /\ rtc_wire' = Append(rtc_wire, chunk_of(packet, offset))
                  /\ IF next < packet.len
                     THEN /\ rtc_cur' = Some([packet |-> packet, offset |-> next])
                          /\ UNCHANGED rtc_done
                     ELSE /\ rtc_cur' = None
                          /\ rtc_done' = Append(rtc_done, packet)
                  /\ UNCHANGED rtc_sender
             ELSE /\ rtc_sender' = "stopped"
                  /\ rtc_cur' = None
                  /\ UNCHANGED << rtc_wire, rtc_done >>
    /\ UNCHANGED << srv_rx, rtc_client, io_rx, rtc_received, rtc_drain, vars, not_rtc >>

\* on_message (webrtc.rs:102-107): a data-channel message from the client
RtcOnMessage ==
    /\ \E msg \in rtc_client :
          /\ io_rx' = Append(io_rx, msg)
          /\ rtc_client' = rtc_client \ {msg}
    /\ UNCHANGED << srv_rx, rtc_cur, rtc_sender, rtc_wire, rtc_done, rtc_received,
                    rtc_drain, vars, not_rtc >>

\* drain_control_messages is entered (session.rs:179, 355-365); the number of
\* messages queued at that moment is noted
RtcDrainBegin ==
    /\ rtc_drain = None
    /\ rtc_drain' = Some([buffered |-> Len(io_rx), handled |-> 0])
    /\ UNCHANGED << srv_rx, rtc_cur, rtc_sender, rtc_wire, rtc_done, rtc_client, io_rx,
                    rtc_received, vars, not_rtc >>

\* one turn of the drain loop with a message queued: recv_packet with
\* CONTROL_POLL_TIMEOUT = 0 is try_recv (webrtc.rs:32-34) and the packet is
\* handled (session.rs:366-385)
RtcRecvPacket ==
    /\ rtc_drain # None
    /\ io_rx # <<>>
    /\ rtc_received' = Append(rtc_received, Head(io_rx))
    /\ io_rx' = Tail(io_rx)
    /\ rtc_drain' = Some([Unwrap(rtc_drain) EXCEPT !.handled = @ + 1])
    /\ UNCHANGED << srv_rx, rtc_cur, rtc_sender, rtc_wire, rtc_done, rtc_client,
                    vars, not_rtc >>

\* one turn of the drain loop with the queue empty: try_recv returns Empty,
\* recv_packet Ok(None), the drain returns Alive (webrtc.rs:35, session.rs:374-376)
RtcDrainEnd ==
    /\ rtc_drain # None
    /\ io_rx = <<>>
    /\ rtc_drain' = None
    /\ UNCHANGED << srv_rx, rtc_cur, rtc_sender, rtc_wire, rtc_done, rtc_client, io_rx,
                    rtc_received, vars, not_rtc >>

RtcNext ==
    \/ RtcSendPacket
    \/ RtcTakePacket
    \/ RtcSendChunk
    \/ RtcOnMessage
    \/ RtcDrainBegin
    \/ RtcRecvPacket
    \/ RtcDrainEnd

RtcSpec == RtcInit /\ [][RtcNext]_all_vars

\* the value of the 4 little-endian bytes of b that begin at position at
LeValue(b, at) == b[at] + 256 * b[at + 1] + 65536 * b[at + 2] + 16777216 * b[at + 3]

\* C19: the messages emitted for a finished packet of length L >= 1 are
\* ceil(L / 60000) in number; the k-th one (k = 0, 1, ...) carries total_len =
\* L and offset = 60000 * k in little-endian and the bytes of the packet from
\* that offset on, at most 60000 of them and not beyond L; consecutive chunks
\* are adjacent, the first begins at 0 and the last ends at L.
C19_ChunksTilePacket ==
    \A i \in 1..Len(rtc_done) :
        LET packet == rtc_done[i]
            msgs == SelectSeq(rtc_wire, LAMBDA m : m.id = packet.id)
        IN packet.len >= 1 =>
              /\ Len(msgs) = (packet.len + 59999) \div 60000
              /\ \A k \in 1..Len(msgs) :
                    /\ Len(msgs[k].prefix) = 8
                    /\ LeValue(msgs[k].prefix, 1) = packet.len
                    /\ LeValue(msgs[k].prefix, 5) = 60000 * (k - 1)
                    /\ msgs[k].from = 60000 * (k - 1)
                    /\ msgs[k].to - msgs[k].from <= 60000
                    /\ msgs[k].to - msgs[k].from >= 1
                    /\ msgs[k].to <= packet.len
                    /\ k < Len(msgs) => msgs[k].to = msgs[k + 1].from
              /\ msgs[Len(msgs)].to = packet.len

C19_Witness ==
    /\ Len(rtc_done) = 2
    /\ rtc_done[1].len = 120001
    /\ rtc_done[2].len = 60000
    /\ Len(rtc_wire) = 4

\* C20: recv_packet delivers only complete packets of the client, each put
\* together from its chunks whatever their order of arrival: what it returns
\* carries no chunk prefix and holds the bytes 0 .. total_len of the packet.
C20_InboundReassembled ==
    \A i \in 1..Len(rtc_received) :
        /\ rtc_received[i].prefix = <<>>
        /\ rtc_received[i].from = 0
        /\ rtc_received[i].to = rtc_received[i].len

\* C21: the chunks on the data channel are in the order of the send_packet
\* calls (packets carry the number of their call): the packet numbers along
\* the channel never decrease, so all chunks of one packet come before any
\* chunk of the next, the chunks of one packet are in offset order, and the
\* packets the sender task finished are in call order.
C21_SendOrderPreserved ==
    /\ \A i, j \in 1..Len(rtc_wire) :
          i < j => \/ rtc_wire[i].id < rtc_wire[j].id
                   \/ /\ rtc_wire[i].id = rtc_wire[j].id
                      /\ rtc_wire[i].from < rtc_wire[j].from
    /\ \A i, j \in 1..Len(rtc_done) : i < j => rtc_done[i].id < rtc_done[j].id
    /\ \A i \in 1..Len(srv_rx) :
          /\ \A j \in 1..Len(rtc_wire) : rtc_wire[j].id < srv_rx[i].id
          /\ \A j \in 1..Len(srv_rx) : i < j => srv_rx[i].id < srv_rx[j].id

\* two multi-chunk packets were queued before the first was taken and both
\* are on the channel
C21_Witness ==
    /\ Len(rtc_wire) = 5
    /\ rtc_wire[1].id = 1
    /\ rtc_wire[3].id = 1
    /\ rtc_wire[4].id = 2
    /\ rtc_wire[5].id = 2

\* C21 (QUIC transport): the frames on the send stream are those of the
\* send_packet calls in call order, each with the length prefix of its packet.
C21_StreamOrderPreserved ==
    \A i \in 1..Len(wt_out) :
        /\ wt_out[i].id = i
        /\ LeValue(wt_out[i].prefix, 1) = wt_out[i].len

\* C22: a packet whose send_packet call returned success has every one of its
\* chunks on the data channel: no packet is waiting in the queue of the sender
\* task or is partly emitted once the call that queued it has returned.
C22_OkAfterAllChunksSent ==
    /\ rtc_cur = None
    /\ \A i \in 1..Len(srv_rx) :
          \/ srv_rx[i].len = 0
          \/ \E j \in 1..Len(rtc_wire) :
                /\ rtc_wire[j].id = srv_rx[i].id
                /\ rtc_wire[j].to = srv_rx[i].len

\* C23: a control drain handles at most the packets that were buffered when
\* it began; packets that arrive while it is in progress are left for the
\* next iteration.
C23_DrainHandlesOnlyBuffered ==
    rtc_drain # None => Unwrap(rtc_drain).handled <= Unwrap(rtc_drain).buffered

\* ---------------------------------------------------------------------------
\* The pacing of the steady loop (session.rs:178-293, 638-649).  Time is
\* counted in units of a quarter of the shortest frame interval.
\* ---------------------------------------------------------------------------

\* the clock value up to which iterations are begun
MaxPaceTime == 8

\* what the drain with the deferred changes, and what capture, encode and
\* send can take
PaceDurations == {0, 1, 5}

\* the frame intervals
PaceIntervals == {4, 6}

\* what std::thread::sleep and the spin loop can overshoot by
PaceLate == {0, 1}

\* pace_frame (session.rs:638-649), called at clock value at: the clock value
\* at which it returns
pace_frame(start, interval, at, late) ==
    LET elapsed == at - start IN
    IF elapsed < interval THEN start + interval + late ELSE at

PaceInit ==
    /\ SessionInit
    /\ MultiIdle
    /\ CodecIdle
    /\ WtIdle
    /\ RtcIdle
    /\ UnitIdle
    /\ pace_pc = "top"
    /\ now = 0
    /\ loop_top = 0
    /\ frame_start = 0
    /\ pace_interval \in PaceIntervals
    /\ paced = None

\* the control drain and the deferred monitor and settings changes
\* (session.rs:179-231)
PaceDrainAndApply ==
    /\ pace_pc = "top"
    /\ now < MaxPaceTime
    /\ \E d \in PaceDurations : now' = now + d
    /\ loop_top' = now
    /\ pace_pc' = "applied"
    /\ UNCHANGED << frame_start, pace_interval, paced, vars, not_pace >>

\* let frame_start = Instant::now() (session.rs:233)
PaceSampleFrameStart ==
    /\ pace_pc = "applied"
    /\ frame_start' = now
    /\ pace_pc' = "sampled"
    /\ UNCHANGED << now, loop_top, pace_interval, paced, vars, not_pace >>

\* capture and, when a frame is ready, read, encode and send
\* (session.rs:235-290)
PaceCaptureEncodeSend ==
    /\ pace_pc = "sampled"
    /\ \E d \in PaceDurations : now' = now + d
    /\ pace_pc' = "worked"
    /\ UNCHANGED << loop_top, frame_start, pace_interval, paced, vars, not_pace >>

\* pace_frame(frame_start, frame_interval) at the end of the iteration
\* (session.rs:245, 292)
PaceFrame ==
    /\ pace_pc = "worked"
    /\ \E late \in PaceLate :
          /\ now' = pace_frame(frame_start, pace_interval, now, late)
          /\ paced' = Some([start |-> frame_start, called |-> now, returned |-> now'])
    /\ pace_pc' = "top"
    /\ UNCHANGED << loop_top, frame_start, pace_interval, vars, not_pace >>

PaceNext ==
    \/ PaceDrainAndApply
    \/ PaceSampleFrameStart
    \/ PaceCaptureEncodeSend
    \/ PaceFrame

PaceSpec == PaceInit /\ [][PaceNext]_all_vars

\* C24: frame_start is the clock value at the very beginning of the
\* iteration, before the drain and the deferred changes, so the time they
\* take counts against the frame interval of the iteration; and pace_frame
\* returns no earlier than frame_start + frame_interval and at once when that
\* instant has passed.
C24_FrameStartAtLoopTop ==
    /\ pace_pc \in {"sampled", "worked"} => frame_start = loop_top
    /\ paced # None =>
          /\ Unwrap(paced).returned >= Unwrap(paced).start + pace_interval
          /\ Unwrap(paced).called >= Unwrap(paced).start + pace_interval
                => Unwrap(paced).returned = Unwrap(paced).called

\* the part of C24 about pace_frame alone
PaceFrameWaits ==
    paced # None =>
       /\ Unwrap(paced).returned >= Unwrap(paced).start + pace_interval
       /\ Unwrap(paced).called >= Unwrap(paced).start + pace_interval
             => Unwrap(paced).returned = Unwrap(paced).called

\* C25: a well-formed MouseInput or KeyboardInput packet neither ends nor
\* alters the session, whether there is no injector, the injection call
\* succeeds or it returns an error: the keyframe latch, the two pending slots
\* and the active settings keep their values, the session keeps running and
\* the drain goes on with the next packet.
C25_InputNeverAltersSession ==
    [][IsSome(input_result') => /\ force_keyframe' = force_keyframe
                                /\ pending_monitor_switch' = pending_monitor_switch
                                /\ pending_encoding_settings' = pending_encoding_settings
                                /\ pending_order' = pending_order
                                /\ encoding_settings' = encoding_settings
                                /\ UNCHANGED session_locals
                                /\ pc = "drain"
                                /\ pc' = "drain"
                                /\ result' = "running"
                                /\ io_error' = io_error
                                /\ (~input_injector => injected' = None)]_vars

\* an injection call returned an error while a keyframe was not requested and
\* both slots were filled
C25_Witness ==
    /\ input_result = Some("Err")
    /\ pc = "drain"
    /\ ~force_keyframe
    /\ IsSome(pending_monitor_switch)
    /\ IsSome(pending_encoding_settings)

\* an input packet arrived at a session without injector
C25_WitnessUnavailable ==
    /\ input_result = Some("unavailable")
    /\ pc = "drain"
    /\ ~force_keyframe

(***************************************************************************)
(* Single functions of the program applied to chosen arguments: the input  *)
(* injector of input/win32.rs.  An f32 is a fraction n / d with d > 0, or  *)
(* NaN; the products formed here are exact in the model.                   *)
(***************************************************************************)
XBUTTON1_DATA == 1
XBUTTON2_DATA == 2

NaN == [nan |-> TRUE, n |-> 0, d |-> 1]

F32(n, d) == [nan |-> FALSE, n |-> n, d |-> d]

Max(a, b) == IF a > b THEN a ELSE b

\* i64 division of Rust: the quotient is rounded toward zero
TruncDiv(a, b) ==
    IF (a >= 0) = (b > 0) THEN (IF a >= 0 THEN a ELSE 0 - a) \div (IF b > 0 THEN b ELSE 0 - b)
    ELSE 0 - ((IF a >= 0 THEN a ELSE 0 - a) \div (IF b > 0 THEN b ELSE 0 - b))

\* f32::clamp(0.0, 1.0): NaN stays NaN
clamp01(x) ==
    IF x.nan THEN x
    ELSE IF x.n < 0 THEN F32(0, 1)
    ELSE IF x.n > x.d THEN F32(1, 1)
    ELSE x

\* (x * k as f32).round() as i32 for x >= 0 and k >= 0: halves are rounded
\* away from zero, NaN is cast to 0
mul_round_as_i32(x, k) ==
    IF x.nan THEN 0 ELSE (2 * x.n * k + x.d) \div (2 * x.d)

\* faulty variant of to_desktop_point: scales by the width and the height
to_desktop_point_full_extent(monitor, x, y) ==
    LET width == Max(monitor.width, 1)
        height == Max(monitor.height, 1)
    IN << monitor.left + mul_round_as_i32(clamp01(x), width),
          monitor.top + mul_round_as_i32(clamp01(y), height) >>

\* InputInjector::to_desktop_point (win32.rs:189-199)
to_desktop_point(monitor, x, y) ==
    LET clamped_x == clamp01(x)
        clamped_y == clamp01(y)
        width == Max(monitor.width, 1)
        height == Max(monitor.height, 1)
        local_x == mul_round_as_i32(clamped_x, width - 1)
        local_y == mul_round_as_i32(clamped_y, height - 1)
    IN << monitor.left + local_x, monitor.top + local_y >>

\* faulty variant of to_sendinput_absolute: the quotient is not clamped
to_sendinput_absolute_unclamped(value, virtual_origin, virtual_size) ==
    IF virtual_size <= 1 THEN 0
    ELSE TruncDiv((value - virtual_origin) * 65535, virtual_size - 1)

\* to_sendinput_absolute (win32.rs:264-272)
to_sendinput_absolute(value, virtual_origin, virtual_size) ==
    IF virtual_size <= 1 THEN 0
    ELSE LET numerator == (value - virtual_origin) * 65535
             denominator == virtual_size - 1
         IN Clamp(TruncDiv(numerator, denominator), 0, 65535)

\* mouse_input (win32.rs:202-216)
mouse_input(dx, dy, mouse_data, flags) ==
    [dx |-> dx, dy |-> dy, mouseData |-> mouse_data, dwFlags |-> flags]

\* InputInjector::mouse_input_absolute (win32.rs:151-166)
mouse_input_absolute(injector, desktop_x, desktop_y, flags) ==
    LET abs_x == to_sendinput_absolute(desktop_x, injector.virtual_left, injector.virtual_width)
        abs_y == to_sendinput_absolute(desktop_y, injector.virtual_top, injector.virtual_height)
    IN mouse_input(abs_x, abs_y, 0, flags \cup {"ABSOLUTE", "VIRTUALDESK"})

\* mouse_button_flags (win32.rs:218-262)
mouse_button_flags(button, down) ==
    CASE button = 0 -> Some(<< {IF down THEN "LEFTDOWN" ELSE "LEFTUP"}, 0 >>)
      [] button = 1 -> Some(<< {IF down THEN "MIDDLEDOWN" ELSE "MIDDLEUP"}, 0 >>)
      [] button = 2 -> Some(<< {IF down THEN "RIGHTDOWN" ELSE "RIGHTUP"}, 0 >>)
      [] button = 3 -> Some(<< {IF down THEN "XDOWN" ELSE "XUP"}, XBUTTON1_DATA >>)
      [] button = 4 -> Some(<< {IF down THEN "XDOWN" ELSE "XUP"}, XBUTTON2_DATA >>)
      [] OTHER -> None

\* InputInjector::send_inputs (win32.rs:168-187), SendInput inserting the first inserted of
\* the events: the batch handed to SendInput and the result
send_inputs(inputs, inserted) ==
    IF inputs = <<>> THEN [batches |-> <<>>, result |-> "Ok"]
    ELSE [batches |-> << inputs >>,
          result |-> IF inserted # Len(inputs) THEN "Err" ELSE "Ok"]

\* InputInjector::move_mouse (win32.rs:65-68) with send_mouse_move (146-149)
move_mouse(injector, monitor, x, y, inserted) ==
    LET p == to_desktop_point(monitor, x, y) IN
    [desktop |-> p]
       @@ send_inputs(<< mouse_input_absolute(injector, p[1], p[2], {"MOVE"}) >>, inserted)

\* faulty variant of mouse_button: the move is inserted for every button code
mouse_button_always_moves(injector, monitor, x, y, button, down, inserted) ==
    LET p == to_desktop_point(monitor, x, y)
        f == mouse_button_flags(button, down)
        move == mouse_input_absolute(injector, p[1], p[2], {"MOVE"})
    IN IF ~IsSome(f) THEN [desktop |-> p] @@ send_inputs(<< move >>, inserted)
       ELSE [desktop |-> p]
               @@ send_inputs(<< move, mouse_input(0, 0, Unwrap(f)[2], Unwrap(f)[1]) >>, inserted)

\* InputInjector::mouse_button (win32.rs:70-88)
mouse_button(injector, monitor, x, y, button, down, inserted) ==
    LET p == to_desktop_point(monitor, x, y)
        f == mouse_button_flags(button, down)
    IN IF ~IsSome(f) THEN [desktop |-> p, batches |-> <<>>, result |-> "Ok"]
       ELSE [desktop |-> p]
               @@ send_inputs(<< mouse_input_absolute(injector, p[1], p[2], {"MOVE"}),
                                 mouse_input(0, 0, Unwrap(f)[2], Unwrap(f)[1]) >>, inserted)

\* the virtual desktop InputInjector::new found (win32.rs:45-63)
UnitInjector ==
    [virtual_left |-> 0 - 1920, virtual_top |-> 0 - 5,
     virtual_width |-> 5760, virtual_height |-> 1085]

\* active monitors; the last one has no extent
UnitMonitors ==
    { [left |-> 0, top |-> 0, width |-> 1920, height |-> 1080],
      [left |-> 0 - 1920, top |-> 0, width |-> 1, height |-> 1],
      [left |-> 1920, top |-> 0 - 5, width |-> 2, height |-> 3],
      [left |-> 0, top |-> 0, width |-> 0, height |-> 0] }

\* normalized coordinates: below 0, the eighths of [0, 1], above 1, far
\* above 1, and NaN
UnitCoords == {NaN, F32(800, 1), F32(1, 3)} \cup { F32(n, 8) : n \in (0 - 1)..9 }

\* button codes
UnitButtons == {0, 1, 2, 3, 4, 5, 6, 255}

\* virtual desktop extents, and pixel positions relative to the origin
UnitSizes == {0 - 1, 0, 1, 2, 3, 1920}

UnitOffsets == {0 - 2, 0 - 1, 0, 1, 2, 959, 960, 1918, 1919, 1920}

MoveCalls ==
    { [fn |-> "move_mouse", monitor |-> m, x |-> x, y |-> y, inserted |-> inserted] :
        m \in UnitMonitors, x \in UnitCoords, y \in {NaN, F32(0 - 1, 8), F32(4, 8), F32(8, 8)},
        inserted \in {1} }

ButtonCalls ==
    { [fn |-> "mouse_button", monitor |-> m, x |-> x, y |-> F32(4, 8), button |-> b,
       down |-> down, inserted |-> inserted] :
        m \in UnitMonitors, x \in {F32(0, 8), F32(4, 8)}, b \in UnitButtons,
        down \in BOOLEAN, inserted \in 0..2 }

AbsoluteCalls ==
    { [fn |-> "to_sendinput_absolute", value |-> origin + off, virtual_origin |-> origin,
       virtual_size |-> size] :
        origin \in {0 - 1920, 0, 7}, off \in UnitOffsets, size \in UnitSizes }

\* shape_buffer[byte_off] & (0x80 >> (x % 8)) != 0 as 0 or 1; byte_off counts
\* from 0 (dda.rs:863-868)
mask_bit(shape_buffer, byte_off, x) ==
    (shape_buffer[byte_off + 1] \div (2 ^ (7 - (x % 8)))) % 2

\* faulty variant of create_cursor_shape: the bits are read LSB first
create_cursor_shape_lsb_first(shape_info, shape_buffer) ==
    LET width == shape_info.Width
        height == shape_info.Height \div 2
        pitch == shape_info.Pitch
        required == pitch * shape_info.Height
    IN IF width = 0 \/ height = 0 THEN [kind |-> "Err"]
       ELSE IF Len(shape_buffer) < required THEN [kind |-> "Err"]
       ELSE [kind |-> "Monochrome", width |-> width, height |-> height,
             ops |-> [i \in 1..(width * height) |->
                        LET y == (i - 1) \div width
                            x == (i - 1) % width
                            byte_off == y * pitch + x \div 8
                            and_bit == mask_bit(shape_buffer, byte_off, 7 - (x % 8))
                            xor_bit == mask_bit(shape_buffer, byte_off + height * pitch,
                                                7 - (x % 8))
                        IN and_bit + 2 * xor_bit]]

\* create_cursor_shape for a MONOCHROME shape (dda.rs:847-881): the opcodes
\* of the R8_UINT texture, row by row
create_cursor_shape(shape_info, shape_buffer) ==
    LET width == shape_info.Width
        height == shape_info.Height \div 2
        pitch == shape_info.Pitch
        required == pitch * shape_info.Height
    IN IF width = 0 \/ height = 0 THEN [kind |-> "Err"]
       ELSE IF Len(shape_buffer) < required THEN [kind |-> "Err"]
       ELSE [kind |-> "Monochrome", width |-> width, height |-> height,
             ops |-> [i \in 1..(width * height) |->
                        LET y == (i - 1) \div width
                            x == (i - 1) % width
                            byte_off == y * pitch + x \div 8
                            and_bit == mask_bit(shape_buffer, byte_off, x)
                            xor_bit == mask_bit(shape_buffer, byte_off + height * pitch, x)
                        IN and_bit + 2 * xor_bit]]

\* COMPOSITE_SHADER for cursor_type 3 (dda.rs:91-99): the colour of a pixel
\* under a monochrome cursor, channels in 0..255
composite_monochrome(op, base) ==
    IF op = 0 THEN << 0, 0, 0 >>
    ELSE IF op = 2 THEN << 255, 255, 255 >>
    ELSE IF op = 3 THEN << 255 - base[1], 255 - base[2], 255 - base[3] >>
    ELSE base

\* mask bytes: 11001100, 10101010, none set
CursorBytes == {204, 170, 0}

\* monochrome shapes: reported sizes with their pitch
CursorInfos ==
    { [Width |-> w, Height |-> h, Pitch |-> p] :
        w \in {0, 1, 4, 8}, h \in {1, 2, 3, 4}, p \in {1} }
    \cup { [Width |-> 9, Height |-> 2, Pitch |-> 2] }

CursorCalls ==
    { [fn |-> "create_cursor_shape", shape_info |-> i, shape_buffer |-> b] :
        i \in CursorInfos, b \in UNION { [1..n -> CursorBytes] : n \in {1, 2, 4} } }

\* encode calls made on one encoder
MaxEncodeCalls == 3

\* the force_keyframe arguments of the successive calls
EncodeCalls ==
    { [fn |-> "encode", force_keyframe |-> f] :
        f \in UNION { [1..n -> BOOLEAN] : n \in 1..MaxEncodeCalls } }

\* DdaCapture::new (dda.rs:272-281): the size of the physical frame for a
\* desktop of width x height; mode is ModeDesc of the duplication
phys_size(width, height, rotation, mode) ==
    IF mode[1] > 0 /\ mode[2] > 0 THEN mode
    ELSE IF rotation = "ROTATE90" \/ rotation = "ROTATE270" THEN << height, width >>
    ELSE << width, height >>

\* to_shader_rotation (dda.rs:784-794)
to_shader_rotation(rotation) ==
    IF rotation = "ROTATE90" THEN 1
    ELSE IF rotation = "ROTATE180" THEN 2
    ELSE IF rotation = "ROTATE270" THEN 3
    ELSE 0

\* faulty variant of ps_main_src: a quarter turn is taken the other way round
ps_main_src_mirrored(dst, src_w, src_h, rotation) ==
    IF rotation = 1 THEN << src_h - 1 - dst[1], dst[2] >>
    ELSE IF rotation = 2 THEN << src_w - 1 - dst[1], src_h - 1 - dst[2] >>
    ELSE IF rotation = 3 THEN << dst[1], src_w - 1 - dst[2] >>
    ELSE dst

\* ps_main (dda.rs:53-65): the source pixel loaded for destination pixel dst
ps_main_src(dst, src_w, src_h, rotation) ==
    IF rotation = 1 THEN << dst[2], src_h - 1 - dst[1] >>
    ELSE IF rotation = 2 THEN << src_w - 1 - dst[1], src_h - 1 - dst[2] >>
    ELSE IF rotation = 3 THEN << src_w - 1 - dst[2], dst[1] >>
    ELSE dst

\* the pixels of a frame of w x h
Grid(w, h) == (0..(w - 1)) \X (0..(h - 1))

\* duplications: the rotation of the output, its desktop size, and whether
\* ModeDesc gives the size of the mode or is empty
RotationCalls ==
    { [fn |-> "render_composite", rotation |-> r, width |-> w, height |-> h,
       mode |-> IF has_mode
                THEN (IF r \in {"ROTATE90", "ROTATE270"} THEN << h, w >> ELSE << w, h >>)
                ELSE << 0, 0 >>] :
        r \in {"UNSPECIFIED", "IDENTITY", "ROTATE90", "ROTATE180", "ROTATE270"},
        w \in 1..4, h \in 1..3, has_mode \in BOOLEAN }

\* cert.pem: missing, empty, or holding a certificate that is "current" or
\* "expired", or the one "generated" by this run with its validity
CertFile(kind) == [kind |-> kind, not_before_hours |-> 0, valid_days |-> 0]

\* str::trim on the marker texts of the model
TrimMarker(version) == IF version = " 2 " THEN "2" ELSE version

\* generate_self_signed_cert (tls.rs:27-61) on the files disk; fail_at names
\* the first operation that fails, if any.  A certificate on disk is
\* "current", "expired" or "missing"; the one generated here is valid from
\* one hour ago for 13 days.  The result, the files afterwards and the files
\* written, in order.
generate_self_signed_cert(disk, fail_at) ==
    LET done(outcome, after, written) ==
            [result |-> outcome, disk |-> after, written |-> written]
        d1 == [disk EXCEPT !.cert = CertFile("empty")]
        d2 == [disk EXCEPT !.cert = [kind |-> "generated", not_before_hours |-> 0 - 1,
                                        valid_days |-> 13]]
        d3 == [d2 EXCEPT !.key = "empty"]
        d4 == [d2 EXCEPT !.key = "new"]
        d5 == [d4 EXCEPT !.marker = "2"]
    IN IF /\ disk.cert.kind # "missing"
          /\ disk.key # "missing"
          /\ disk.marker # "missing"
          /\ TrimMarker(disk.marker) = "2"
       THEN done("Ok", disk, <<>>)
       ELSE CASE fail_at \in {"params", "keygen", "sign", "create_cert"} ->
                    done("Err", disk, <<>>)
              [] fail_at = "write_cert" -> done("Err", d1, << "cert.pem" >>)
              [] fail_at = "create_key" -> done("Err", d2, << "cert.pem" >>)
              [] fail_at = "write_key" -> done("Err", d3, << "cert.pem", "key.pem" >>)
              [] fail_at = "write_marker" -> done("Err", d4, << "cert.pem", "key.pem" >>)
              [] OTHER -> done("Ok", d5, << "cert.pem", "key.pem", "cert.version" >>)

\* the working directory at start-up, and the operation that fails
CertCalls ==
    { [fn |-> "generate_self_signed_cert",
       disk |-> [cert |-> CertFile(c), key |-> k, marker |-> m], fail_at |-> f] :
        c \in {"missing", "current", "expired"}, k \in {"missing", "old"},
        m \in {"missing", "1", "2", " 2 "},
        f \in {"none", "params", "keygen", "sign", "create_cert", "write_cert", "create_key",
               "write_key", "write_marker"} }

\* ---------------------------------------------------------------------------
\* drain_control_messages (session.rs:355-387) over the packets recv_packet
\* returns before it returns None: each is handed to
\* handle_binary_control_message in turn

\* packets one drain takes
MaxDrained == 3

RECURSIVE drain_control_messages(_, _, _, _, _)
drain_control_messages(inbox, fk, pms, pes, injector) ==
    IF inbox = <<>>
    THEN [force_keyframe |-> fk, pending_monitor_switch |-> pms,
          pending_encoding_settings |-> pes]
    ELSE LET h == handle_binary_control_message(Head(inbox), fk, pms, pes, injector) IN
         drain_control_messages(Tail(inbox), h.force_keyframe, h.pending_monitor_switch,
                                h.pending_encoding_settings, injector)

DrainPackets ==
    { Pkt(27, 5, 11, [type |-> "MonitorSelect", index |-> 0]),
      Pkt(27, 5, 11, [type |-> "MonitorSelect", index |-> 2]),
      Pkt(20, 5, 11, [type |-> "MonitorSelect", index |-> 1]),   \* truncated payload
      Pkt(80, 6, 64, SettingsBody(60, 20000000, 2, None)),
      Pkt(80, 6, 64, SettingsBody(5, 1, 0, Some(<<"v", "p", "9">>))),
      Pkt(80, 6, 64, [type |-> "garbage"]) }

DrainCalls ==
    {[fn |-> "drain_control_messages", inbox |-> q, pms |-> m, pes |-> e] :
        q \in SeqsUpTo(DrainPackets, MaxDrained),
        m \in {None, Some(1)},
        e \in {None, Some(SettingsBody(500, 2147483647, 99, None))}}

\* ---------------------------------------------------------------------------
\* apply_encoding_settings (session.rs:475-528) and the echo that follows it
\* (227), on codec names as a client may spell them

\* raw codec names and what VideoCodec::from_client_name is to make of them
CodecNameTable ==
    { [raw |-> <<"a", "v", "1">>, codec |-> "Av1"],
      [raw |-> <<"A", "V", "1", "\n">>, codec |-> "Av1"],
      [raw |-> <<"a", "v", "c">>, codec |-> "Avc"],
      [raw |-> <<" ", "H", "2", "6", "4">>, codec |-> "Avc"],
      [raw |-> <<"H", "e", "v", "c">>, codec |-> "Hevc"],
      [raw |-> <<"\t", "h", "2", "6", "5", " ">>, codec |-> "Hevc"],
      [raw |-> <<"v", "p", "9">>, codec |-> "unknown"],
      [raw |-> <<"h", " ", "2", "6", "4">>, codec |-> "unknown"],
      [raw |-> <<"a", "v", "1", "1">>, codec |-> "unknown"],
      [raw |-> <<>>, codec |-> "unknown"] }

ApplyCalls ==
    {[fn |-> "apply_encoding_settings",
      payload |-> SettingsBody(fps, 20000000, 99, name),
      active |-> [DefaultEncodingSettings EXCEPT !.codec = codec],
      codec_ok |-> ok] :
        fps \in {5, 60},
        name \in {None} \cup {Some(t.raw) : t \in CodecNameTable},
        codec \in {"Av1", "Avc", "Hevc"},
        ok \in BOOLEAN}

\* ---------------------------------------------------------------------------
\* DdaCapture::capture_frame (dda.rs:530-594) as the calls it makes on the
\* duplication interface.  env gives the outcome of each call that can fail:
\* acquire ("ok", "timeout", "error"), the PointerShapeBufferSize reported,
\* GetFramePointerShape, the composite / colour conversion closure, and
\* ReleaseFrame.

\* update_cursor_shape (dda.rs:670-698): Err only from GetFramePointerShape; a
\* failure of create_cursor_shape is logged
update_cursor_shape(shape_ok) == IF shape_ok THEN "Ok" ELSE "Err"

capture_frame(env) ==
    LET ret(outcome, calls) ==
            [result |-> outcome, calls |-> <<"AcquireNextFrame">> \o calls]
    IN IF env.acquire = "timeout" THEN ret("false", <<>>)
       ELSE IF env.acquire = "error" THEN ret("Err", <<>>)
       ELSE IF env.shape_size > 0 /\ update_cursor_shape(env.shape_ok) = "Err"
       THEN ret("Err", <<"GetFramePointerShape">>)
       ELSE LET shape == IF env.shape_size > 0 THEN <<"GetFramePointerShape">> ELSE <<>>
                calls == shape \o <<"convert", "ReleaseFrame">>
            IN IF ~env.release_ok THEN ret("Err", calls)
               ELSE IF env.convert_ok THEN ret("true", calls)
               ELSE ret("Err", calls)

CaptureCalls ==
    {[fn |-> "capture_frame",
      env |-> [acquire |-> a, shape_size |-> n, shape_ok |-> s, convert_ok |-> v,
               release_ok |-> r]] :
        a \in {"ok", "timeout", "error"}, n \in {0, 1}, s \in BOOLEAN, v \in BOOLEAN,
        r \in BOOLEAN}

UnitInit ==
    /\ SessionInit
    /\ MultiIdle
    /\ CodecIdle
    /\ WtIdle
    /\ RtcIdle
    /\ PaceIdle
    /\ \E c \in MoveCalls \cup ButtonCalls \cup AbsoluteCalls \cup EncodeCalls
                  \cup CursorCalls
                  \cup RotationCalls
                  \cup CertCalls
                  \cup DrainCalls
                  \cup ApplyCalls
                  \cup CaptureCalls :
          unit_call = Some(c)
    /\ unit_ret = None

\* the call is made with the arguments of call
Calling(fn) ==
    /\ unit_call # None
    /\ unit_ret = None
    /\ Unwrap(unit_call).fn = fn
    /\ UNCHANGED << unit_call, vars, not_unit >>

CallMoveMouse ==
    /\ Calling("move_mouse")
    /\ LET c == Unwrap(unit_call) IN
       unit_ret' = Some(move_mouse(UnitInjector, c.monitor, c.x, c.y, c.inserted))

CallMouseButton ==
    /\ Calling("mouse_button")
    /\ LET c == Unwrap(unit_call) IN
       unit_ret' = Some(mouse_button(UnitInjector, c.monitor, c.x, c.y, c.button, c.down,
                                     c.inserted))

CallToSendinputAbsolute ==
    /\ Calling("to_sendinput_absolute")
    /\ LET c == Unwrap(unit_call) IN
       unit_ret' = Some(to_sendinput_absolute(c.value, c.virtual_origin, c.virtual_size))

\* the next encode call on the encoder made by AmfEncoder::new
\* (amf.rs:102-175, 180-239): the encoder after the call, the timestamps put
\* on the submitted frames so far, and how many access units each call yielded
CallEncode ==
    /\ unit_call # None
    /\ Unwrap(unit_call).fn = "encode"
    /\ LET calls == Unwrap(unit_call).force_keyframe
           before == IF unit_ret = None
                     THEN [encoder |-> Unwrap(AmfEncoderNew(
                                           encoder_config(1920, 1080, DefaultEncodingSettings),
                                           TRUE)),
                           stamped |-> <<>>, yielded |-> <<>>]
                     ELSE Unwrap(unit_ret)
           n == Len(before.stamped) + 1
       IN /\ n <= Len(calls)
          /\ \E n_out \in 0..(Len(before.encoder.queue) + 1), gop_key \in BOOLEAN :
                LET e == AmfEncode(before.encoder, calls[n], gop_key, n_out)
                    submitted == (e.frames \o e.encoder.queue)[Len(before.encoder.queue) + 1]
                IN unit_ret' = Some([encoder |-> e.encoder,
                                     stamped |-> Append(before.stamped, submitted.pts),
                                     yielded |-> Append(before.yielded, Len(e.frames))])
    /\ UNCHANGED << unit_call, vars, not_unit >>

CallCreateCursorShape ==
    /\ Calling("create_cursor_shape")
    /\ LET c == Unwrap(unit_call) IN
       unit_ret' = Some(create_cursor_shape(c.shape_info, c.shape_buffer))

\* one composite pass over the logical frame (dda.rs:700-710, 52-67) of a
\* capturer made by DdaCapture::new: the physical size, the rotation code and
\* the source pixel of every destination pixel
CallRenderComposite ==
    /\ Calling("render_composite")
    /\ LET c == Unwrap(unit_call)
           phys == phys_size(c.width, c.height, c.rotation, c.mode)
           shader_rotation == to_shader_rotation(c.rotation)
       IN unit_ret' = Some([phys |-> phys, shader_rotation |-> shader_rotation,
                            src |-> [dst \in Grid(c.width, c.height) |->
                                       ps_main_src(dst, phys[1], phys[2], shader_rotation)]])

CallGenerateSelfSignedCert ==
    /\ Calling("generate_self_signed_cert")
    /\ LET c == Unwrap(unit_call) IN
       unit_ret' = Some(generate_self_signed_cert(c.disk, c.fail_at))

CallDrainControlMessages ==
    /\ Calling("drain_control_messages")
    /\ LET c == Unwrap(unit_call) IN
       unit_ret' = Some(drain_control_messages(c.inbox, FALSE, c.pms, c.pes, FALSE))

CallApplyEncodingSettings ==
    /\ Calling("apply_encoding_settings")
    /\ LET c == Unwrap(unit_call)
           config == encoder_config(1920, 1080, c.active)
           a == apply_encoding_settings(c.payload, c.active,
                                        Unwrap(AmfEncoderNew(config, TRUE)),
                                        1920, 1080, c.codec_ok)
       IN unit_ret' = Some([applied |-> a,
                            echo |-> encoding_settings_packet(a.encoding_settings)])

CallCaptureFrame ==
    /\ Calling("capture_frame")
    /\ unit_ret' = Some(capture_frame(Unwrap(unit_call).env))

UnitNext ==
    \/ CallMoveMouse
    \/ CallMouseButton
    \/ CallToSendinputAbsolute
    \/ CallEncode
    \/ CallCreateCursorShape
    \/ CallRenderComposite
    \/ CallGenerateSelfSignedCert
    \/ CallDrainControlMessages
    \/ CallApplyEncodingSettings
    \/ CallCaptureFrame

UnitSpec == UnitInit /\ [][UnitNext]_all_vars

\* the call whose result is in unit_ret is a call of fn
Returned(fn) == unit_ret # None /\ Unwrap(unit_call).fn = fn

\* round(c * k) for a fraction c in [0, 1], halves upward, as an integer
RoundOfProduct(c, k) ==
    CHOOSE r \in 0..k : 2 * c.d * r - c.d <= 2 * c.n * k /\ 2 * c.n * k < 2 * c.d * r + c.d

\* C26: for an active monitor (left, top, W, H) with W, H >= 1, move_mouse
\* targets (left + round(cx * (W - 1)), top + round(cy * (H - 1))), cx and cy
\* being x and y clamped to [0, 1]; the target lies in the rectangle
\* [left, left + W - 1] x [top, top + H - 1]; and (0.5, 0.5) goes to
\* (left + round(0.5 * (W - 1)), top + round(0.5 * (H - 1))).
C26_MoveTargetsMonitorPixel ==
    Returned("move_mouse") =>
       LET c == Unwrap(unit_call)
           m == c.monitor
           p == Unwrap(unit_ret).desktop
           cx == IF c.x.n < 0 THEN F32(0, 1) ELSE IF c.x.n > c.x.d THEN F32(1, 1) ELSE c.x
           cy == IF c.y.n < 0 THEN F32(0, 1) ELSE IF c.y.n > c.y.d THEN F32(1, 1) ELSE c.y
       IN (m.width >= 1 /\ m.height >= 1) =>
             /\ m.left <= p[1] /\ p[1] <= m.left + m.width - 1
             /\ m.top <= p[2] /\ p[2] <= m.top + m.height - 1
             /\ ~c.x.nan => p[1] = m.left + RoundOfProduct(cx, m.width - 1)
             /\ ~c.y.nan => p[2] = m.top + RoundOfProduct(cy, m.height - 1)
             /\ (c.x = F32(4, 8) /\ c.y = F32(4, 8))
                   => /\ p[1] = m.left + (m.width \div 2)
                      /\ p[2] = m.top + (m.height \div 2)

\* the centre of a 1920 x 1080 monitor
C26_Witness ==
    /\ Returned("move_mouse")
    /\ Unwrap(unit_call).monitor.width = 1920
    /\ Unwrap(unit_call).x = F32(4, 8)
    /\ Unwrap(unit_call).y = F32(4, 8)
    /\ Unwrap(unit_ret).desktop = << 960, 540 >>

\* ((pixel - origin) * 65535) / (size - 1) clamped to [0, 65535], written
\* with the division of non-negative integers
ScaledTo65535(pixel, origin, size) ==
    IF pixel < origin THEN 0
    ELSE Min(((pixel - origin) * 65535) \div (size - 1), 65535)

\* C27 as stated: to_sendinput_absolute(pixel, origin, size) is
\* ((pixel - origin) * 65535) / (size - 1) clamped to [0, 65535], and 0 when
\* size <= 1; for every input it lies in [0, 65535], is 0 at pixel = origin
\* and 65535 at pixel = origin + size - 1, and does not decrease with pixel.
C27_AbsoluteAsStated ==
    Returned("to_sendinput_absolute") =>
       LET c == Unwrap(unit_call)
           r == Unwrap(unit_ret)
       IN /\ r = (IF c.virtual_size <= 1 THEN 0
                  ELSE ScaledTo65535(c.value, c.virtual_origin, c.virtual_size))
          /\ 0 <= r /\ r <= 65535
          /\ c.value = c.virtual_origin => r = 0
          /\ c.value = c.virtual_origin + c.virtual_size - 1 => r = 65535
          /\ r <= to_sendinput_absolute(c.value + 1, c.virtual_origin, c.virtual_size)

\* C27, amended: the same, with the value 65535 at pixel = origin + size - 1
\* for size >= 2 only; for size <= 1 the result is 0 for every pixel.
C27_AbsoluteInRange ==
    Returned("to_sendinput_absolute") =>
       LET c == Unwrap(unit_call)
           r == Unwrap(unit_ret)
       IN /\ r = (IF c.virtual_size <= 1 THEN 0
                  ELSE ScaledTo65535(c.value, c.virtual_origin, c.virtual_size))
          /\ 0 <= r /\ r <= 65535
          /\ c.value = c.virtual_origin => r = 0
          /\ (c.virtual_size >= 2 /\ c.value = c.virtual_origin + c.virtual_size - 1)
                => r = 65535
          /\ r <= to_sendinput_absolute(c.value + 1, c.virtual_origin, c.virtual_size)

\* the middle of a desktop of 1920 pixels
C27_Witness ==
    /\ Returned("to_sendinput_absolute")
    /\ Unwrap(unit_call).virtual_size = 1920
    /\ Unwrap(unit_call).value = Unwrap(unit_call).virtual_origin + 960
    /\ Unwrap(unit_ret) = 32784

\* the event of button code b: the flag when pressed, the flag when released,
\* the data word
ButtonEvents ==
    << << "LEFTDOWN", "LEFTUP", 0 >>, << "MIDDLEDOWN", "MIDDLEUP", 0 >>,
       << "RIGHTDOWN", "RIGHTUP", 0 >>, << "XDOWN", "XUP", 1 >>, << "XDOWN", "XUP", 2 >> >>

\* C28: mouse_button with a button code in 0..4 hands exactly one batch of two
\* events to SendInput: an absolute move to the mapped point, then the down
\* or up event of the button (0 left, 1 middle, 2 right, 3 x1, 4 x2); with any
\* other code it hands over nothing, not even the move, and returns Ok.
C28_ButtonEmitsMoveThenButton ==
    Returned("mouse_button") =>
       LET c == Unwrap(unit_call)
           r == Unwrap(unit_ret)
       IN IF c.button \in 0..4
          THEN /\ Len(r.batches) = 1
               /\ Len(r.batches[1]) = 2
               /\ r.batches[1][1].dwFlags = {"MOVE", "ABSOLUTE", "VIRTUALDESK"}
               /\ r.batches[1][1].dx = ScaledTo65535(r.desktop[1], UnitInjector.virtual_left,
                                                     UnitInjector.virtual_width)
               /\ r.batches[1][1].dy = ScaledTo65535(r.desktop[2], UnitInjector.virtual_top,
                                                     UnitInjector.virtual_height)
               /\ r.batches[1][1].mouseData = 0
               /\ r.batches[1][2].dwFlags
                     = {ButtonEvents[c.button + 1][IF c.down THEN 1 ELSE 2]}
               /\ r.batches[1][2].mouseData = ButtonEvents[c.button + 1][3]
               /\ r.batches[1][2].dx = 0
               /\ r.batches[1][2].dy = 0
               /\ r.result = "Ok" <=> c.inserted = 2
          ELSE /\ r.batches = <<>>
               /\ r.result = "Ok"

\* the second extra button is pressed
C28_Witness ==
    /\ Returned("mouse_button")
    /\ Unwrap(unit_call).button = 4
    /\ Unwrap(unit_call).down
    /\ Len(Unwrap(unit_ret).batches) = 1
    /\ Unwrap(unit_ret).batches[1][2].dwFlags = {"XDOWN"}
    /\ Unwrap(unit_ret).result = "Ok"

\* a button code outside 0..4
C28_WitnessUnknownButton ==
    /\ Returned("mouse_button")
    /\ Unwrap(unit_call).button = 255
    /\ Unwrap(unit_ret).batches = <<>>

\* C29: within one encoder, the n-th call of encode (n = 0, 1, 2, ...) stamps
\* the frame it submits with presentation timestamp n, whatever the
\* force_keyframe arguments were and however many access units each call
\* yielded.
C29_PtsCountsCalls ==
    Returned("encode") =>
       LET r == Unwrap(unit_ret) IN
       /\ \A n \in 1..Len(r.stamped) : r.stamped[n] = n - 1
       /\ r.encoder.frame_index = Len(r.stamped)

\* three calls, the second one forced, yielding 0, 2 and 1 access units
C29_Witness ==
    /\ Returned("encode")
    /\ Unwrap(unit_call).force_keyframe = << FALSE, TRUE, FALSE >>
    /\ Unwrap(unit_ret).stamped = << 0, 1, 2 >>
    /\ Unwrap(unit_ret).yielded = << 0, 2, 1 >>

\* bit x of a row of mask bytes, the most significant bit of a byte first;
\* the row begins at the byte numbered first, counted from 1
MsbFirstBit(bytes, first, x) ==
    LET byte == bytes[first + x \div 8]
        below == 7 - (x % 8)
    IN IF (byte \div (2 ^ below)) % 2 = 1 THEN 1 ELSE 0

\* C30: for a monochrome cursor the opcode of pixel (x, y) is
\* and_bit | (xor_bit << 1), the AND bit being read MSB first from row y of the
\* upper plane and the XOR bit from the same position height * pitch bytes
\* below, height being half the reported height; and the shader draws opcode 0
\* as black, 1 as the destination, 2 as white and 3 as the inverted
\* destination.
C30_MonochromeOpcodes ==
    (Returned("create_cursor_shape") /\ Unwrap(unit_ret).kind = "Monochrome") =>
       LET c == Unwrap(unit_call)
           r == Unwrap(unit_ret)
           height == c.shape_info.Height \div 2
           pitch == c.shape_info.Pitch
       IN /\ r.width = c.shape_info.Width
          /\ r.height = height
          /\ Len(r.ops) = r.width * height
          /\ \A y \in 0..(height - 1), x \in 0..(r.width - 1) :
                LET and_bit == MsbFirstBit(c.shape_buffer, y * pitch + 1, x)
                    xor_bit == MsbFirstBit(c.shape_buffer, (y + height) * pitch + 1, x)
                    op == r.ops[y * r.width + x + 1]
                IN /\ op = (CASE and_bit = 0 /\ xor_bit = 0 -> 0
                              [] and_bit = 1 /\ xor_bit = 0 -> 1
                              [] and_bit = 0 /\ xor_bit = 1 -> 2
                              [] and_bit = 1 /\ xor_bit = 1 -> 3)
                   /\ \A base \in { << 0, 0, 0 >>, << 255, 255, 255 >>, << 255, 0, 128 >> } :
                         composite_monochrome(op, base)
                            = (CASE op = 0 -> << 0, 0, 0 >>
                                 [] op = 1 -> base
                                 [] op = 2 -> << 255, 255, 255 >>
                                 [] op = 3 -> << 255 - base[1], 255 - base[2],
                                                 255 - base[3] >>)

\* a cursor of 4 x 1 pixels whose masks have all four (and, xor) pairs
C30_Witness ==
    /\ Returned("create_cursor_shape")
    /\ Unwrap(unit_call).shape_info = [Width |-> 4, Height |-> 2, Pitch |-> 1]
    /\ Unwrap(unit_call).shape_buffer = << 204, 170 >>
    /\ Unwrap(unit_ret).kind = "Monochrome"
    /\ Unwrap(unit_ret).ops = << 3, 1, 2, 0 >>

\* C31: for each rotation code 0..3 and every logical frame size the mapping
\* from destination pixel to source pixel (identity; (y, src_h-1-x);
\* (src_w-1-x, src_h-1-y); (src_w-1-y, x)) sends every pixel of the logical
\* frame into the physical frame and is a bijection of the two grids, the
\* physical size being the logical size swapped for codes 1 and 3 and equal
\* to it for codes 0 and 2.
C31_RotationIsBijection ==
    Returned("render_composite") =>
       LET c == Unwrap(unit_call)
           r == Unwrap(unit_ret)
           logical == Grid(c.width, c.height)
       IN /\ r.shader_rotation \in 0..3
          /\ r.phys = (IF r.shader_rotation \in {1, 3} THEN << c.height, c.width >>
                       ELSE << c.width, c.height >>)
          /\ \A dst \in logical :
                /\ r.src[dst] \in Grid(r.phys[1], r.phys[2])
                /\ r.src[dst] = (CASE r.shader_rotation = 0 -> dst
                                   [] r.shader_rotation = 1 -> << dst[2], r.phys[2] - 1 - dst[1] >>
                                   [] r.shader_rotation = 2 -> << r.phys[1] - 1 - dst[1],
                                                                  r.phys[2] - 1 - dst[2] >>
                                   [] r.shader_rotation = 3 -> << r.phys[1] - 1 - dst[2], dst[1] >>)
          /\ \A d1, d2 \in logical : r.src[d1] = r.src[d2] => d1 = d2
          /\ \A s \in Grid(r.phys[1], r.phys[2]) : \E dst \in logical : r.src[dst] = s

\* a desktop of 4 x 3 turned by 90 degrees: the physical frame is 3 x 4 and
\* the last destination pixel comes from the top right source pixel
C31_Witness ==
    /\ Returned("render_composite")
    /\ Unwrap(unit_call).rotation = "ROTATE90"
    /\ Unwrap(unit_call).width = 4
    /\ Unwrap(unit_call).height = 3
    /\ Unwrap(unit_call).mode = << 0, 0 >>
    /\ Unwrap(unit_ret).phys = << 3, 4 >>
    /\ Unwrap(unit_ret).src[<< 3, 2 >>] = << 2, 0 >>

\* the certificate file holds a certificate that is valid now
IsCurrent(cert) ==
    \/ cert.kind = "current"
    \/ /\ cert.kind = "generated"
       /\ cert.not_before_hours <= 0
       /\ cert.valid_days * 24 + cert.not_before_hours > 0

\* C32: after certificate provisioning has returned successfully the
\* certificate on disk is current: a new one, valid for at most 14 days, is
\* generated when cert.pem or key.pem is missing, the marker is missing or not
\* the required version, or the existing certificate has expired; otherwise
\* the files are left untouched; and the marker is written only after both
\* cert.pem and key.pem.
C32_CertificateIsCurrent ==
    (Returned("generate_self_signed_cert") /\ Unwrap(unit_ret).result = "Ok") =>
       LET c == Unwrap(unit_call)
           r == Unwrap(unit_ret)
           stale == \/ c.disk.cert.kind = "missing"
                    \/ c.disk.key = "missing"
                    \/ c.disk.marker \in {"missing", "1"}
                    \/ c.disk.cert.kind = "expired"
       IN /\ IsCurrent(r.disk.cert)
          /\ IF stale
             THEN /\ r.written = << "cert.pem", "key.pem", "cert.version" >>
                  /\ r.disk.cert.valid_days <= 14
             ELSE r.written = <<>> /\ r.disk = c.disk

\* what of C32 the code does: the marker is the last file written, whether or
\* not the call succeeds, a generated certificate is current and valid for at
\* most 14 days, and files that are complete with the required marker are
\* left untouched
MarkerWrittenLast ==
    Returned("generate_self_signed_cert") =>
       LET c == Unwrap(unit_call)
           r == Unwrap(unit_ret)
       IN /\ \A i \in 1..Len(r.written) :
                r.written[i] = "cert.version"
                   => /\ i = 3
                      /\ r.written[1] = "cert.pem"
                      /\ r.written[2] = "key.pem"
          /\ (r.result = "Ok" /\ r.written # <<>>)
                => /\ IsCurrent(r.disk.cert)
                   /\ r.disk.cert.valid_days <= 14
                   /\ r.disk.marker = "2"
          /\ (r.result = "Ok" /\ r.written = <<>>) => r.disk = c.disk

\* ---------------------------------------------------------------------------
\* frame interval and capture timeout

\* the frame interval and the capture timeout that go with fps, as the
\* quotients' defining inequalities: floor(1,000,000 / fps) microseconds and
\* ceil(1000 / fps) + 1 milliseconds
TimingFor(fps, interval_us, timeout_ms) ==
    /\ interval_us * fps <= 1000000
    /\ 1000000 < (interval_us + 1) * fps
    /\ (timeout_ms - 1) * fps >= 1000
    /\ (timeout_ms - 2) * fps < 1000

\* C33: in every session state the frame interval is floor(1,000,000 / fps)
\* microseconds and the capture timeout ceil(1000 / fps) + 1 milliseconds for
\* the fps of the active settings, and neither changes in a step that leaves
\* the active settings alone; for every fps from 24 to 120 the capture timeout
\* is longer than the frame interval, so pace_frame called once a capture has
\* timed out returns at once.
C33_TimingFollowsSettings ==
    /\ [](/\ TimingFor(encoding_settings.fps, frame_interval, capture_timeout_ms)
          /\ \A fps \in MIN_TARGET_FPS .. MAX_TARGET_FPS :
                LET timeout_us == 1000 * capture_timeout_ms_for_fps(fps) IN
                /\ timeout_us > frame_interval_for_fps(fps)
                /\ \A late \in PaceLate :
                      pace_frame(0, frame_interval_for_fps(fps), timeout_us, late)
                         = timeout_us)
    /\ [][(frame_interval' # frame_interval \/ capture_timeout_ms' # capture_timeout_ms)
             => encoding_settings' # encoding_settings]_vars

\* a settings change to another fps has been applied
C33_Witness ==
    /\ pc = "echo"
    /\ enc_ctor = "ok"
    /\ encoding_settings.fps = MIN_TARGET_FPS
    /\ frame_interval = 41666
    /\ capture_timeout_ms = 43

\* ---------------------------------------------------------------------------
\* encoder configuration

\* C34: once capture engine and encoder exist, the encoder is configured with
\* the width and height of the current capture engine and with the active
\* settings, in every state; a settings change applied in the iteration of a
\* successful monitor switch builds its encoder with the new monitor's
\* dimensions.
C34_EncoderMatchesCaptureAndSettings ==
    capturer # NoCapturer =>
        LET config == encoder_config(capturer.width, capturer.height, encoding_settings) IN
        /\ capturer.monitor_index = current_monitor_index
        /\ encoder.width = config.width
        /\ encoder.height = config.height
        /\ encoder.codec = config.codec
        /\ encoder.fps = config.fps
        /\ encoder.bitrate = config.bitrate
        /\ encoder.keyframe_interval = config.keyframe_interval

\* a monitor switch and a settings change have both succeeded in one iteration
C34_Witness ==
    /\ pc = "echo"
    /\ cap_ctor = "ok"
    /\ enc_ctor = "ok"
    /\ current_monitor_index = 1
    /\ encoding_settings.fps = MAX_TARGET_FPS
    /\ encoder.width = Monitors[2].width
    /\ encoder.width # Monitors[1].width
    /\ encoder.fps = MAX_TARGET_FPS

\* ---------------------------------------------------------------------------
\* the EncodingSettings echo

\* the packet accepted last is an EncodingSettings state frame
LastIsSettingsEcho(p) == IsSome(p) /\ Unwrap(p).tag = TypeByte("EncodingSettings")

\* C35: an iteration that takes a pending EncodingSettings payload sends one
\* EncodingSettings state frame carrying the settings active after the apply
\* step, whether the encoder was replaced, left as it was or could not be
\* built; the frame goes out before anything else is sent, a failed send ends
\* the session, and an iteration that takes no payload sends no such frame.
C35_EchoAfterApply ==
    [][/\ (pc = "apply_settings" /\ IsSome(pending_encoding_settings)) =>
              /\ pc' = "echo"
              /\ sent' = sent
              /\ enc_ctor' \in {"ok", "none", "fail"}
       /\ (pc = "apply_settings" /\ ~IsSome(pending_encoding_settings)) =>
              /\ pc' = "capture"
              /\ sent' = sent
       /\ pc = "echo" =>
              \/ /\ sent_count' = sent_count + 1
                 /\ video_sent' = video_sent
                 /\ LastIsSettingsEcho(last_sent')
                 /\ Unwrap(last_sent').payload =
                       [fps |-> encoding_settings.fps,
                        bitrate |-> encoding_settings.bitrate,
                        keyframe_interval |-> encoding_settings.keyframe_interval_secs,
                        codec |-> as_client_name(encoding_settings.codec)]
                 /\ SettingsInRange(Unwrap(last_sent').payload.fps,
                                    Unwrap(last_sent').payload.bitrate,
                                    Unwrap(last_sent').payload.keyframe_interval)
                 /\ encoding_settings' = encoding_settings
                 /\ pc' = "capture"
                 /\ result' = "running"
              \/ /\ sent' = sent
                 /\ pc' = "done"
                 /\ result' = "Ok"
       /\ (sent_count' # sent_count /\ LastIsSettingsEcho(last_sent')) =>
              pc \in {"send_settings", "echo"}
      ]_vars

\* the echo of a request that changed nothing has been sent
C35_Witness ==
    /\ pc = "capture"
    /\ enc_ctor = "none"
    /\ LastIsSettingsEcho(last_sent)
    /\ sent_count >= 3

\* the echo of a request whose encoder could not be built has been sent
C35_WitnessFailed ==
    /\ pc = "capture"
    /\ enc_ctor = "fail"
    /\ LastIsSettingsEcho(last_sent)
    /\ sent_count >= 3

\* ---------------------------------------------------------------------------
\* the pending slots

\* data is a packet of type byte tag whose payload lies inside it and is JSON
\* of type T
WellFormed(data, tag, T) ==
    /\ data.len >= HEADER_SIZE
    /\ data.tag = tag
    /\ HEADER_SIZE + data.payload_len <= data.len
    /\ data.body.type = T

\* the positions of the well-formed packets of a type in a drain
WellFormedAt(inbox, tag, T) == {i \in 1..Len(inbox) : WellFormed(inbox[i], tag, T)}

LastOf(S) == CHOOSE i \in S : \A j \in S : j <= i

\* C36: after a drain each pending slot holds the value of the last parseable
\* packet of its type taken by that drain, or what it held before when the
\* drain took none; parseable packets before the last one leave nothing
\* behind, and a packet of the type that cannot be parsed changes nothing.
C36_LastPendingWins ==
    Returned("drain_control_messages") =>
        LET c == Unwrap(unit_call)
            r == Unwrap(unit_ret)
            mon == WellFormedAt(c.inbox, 5, "MonitorSelect")
            set == WellFormedAt(c.inbox, 6, "EncodingSettings")
        IN /\ r.pending_monitor_switch =
                 (IF mon = {} THEN c.pms ELSE Some(c.inbox[LastOf(mon)].body.index))
           /\ r.pending_encoding_settings =
                 (IF set = {} THEN c.pes ELSE Some(c.inbox[LastOf(set)].body))
           /\ r.force_keyframe = FALSE

\* two different monitor indices and then a truncated MonitorSelect have been
\* drained
C36_Witness ==
    /\ Returned("drain_control_messages")
    /\ LET c == Unwrap(unit_call) IN
       /\ Len(c.inbox) = 3
       /\ WellFormedAt(c.inbox, 5, "MonitorSelect") = {1, 2}
       /\ c.inbox[3].tag = 5
       /\ c.inbox[1].body.index = 0
       /\ c.inbox[2].body.index = 2
       /\ c.pms = Some(1)
    /\ Unwrap(unit_ret).pending_monitor_switch = Some(2)

\* the apply steps leave their slot empty (session.rs:196, 214), whatever the
\* outcome of the switch or of the settings change
C36_SlotEmptiedByTake ==
    [][/\ pc = "apply_monitor" => pending_monitor_switch' = None
       /\ pc = "apply_settings" => pending_encoding_settings' = None]_vars

\* ---------------------------------------------------------------------------
\* the geometry mouse input is mapped with

\* the first descriptor of the monitor list with this index, if there is one
ListedMonitor(index) ==
    LET at == {i \in 1..Len(Monitors) : Monitors[i].index = index} IN
    IF at = {} THEN None
    ELSE Some(Monitors[CHOOSE i \in at : \A j \in at : i <= j])

Limited(v, lo, hi) == IF v < lo THEN lo ELSE IF v > hi THEN hi ELSE v

\* C38: a request without codec field, or with a name that is not av1, avc,
\* h264, hevc or h265 once trimmed and lowercased, keeps the active codec and
\* still applies its fps, bitrate and keyframe interval limited to their
\* ranges; av1 selects AV1, avc and h264 select AVC, hevc and h265 select HEVC;
\* the echo names the active codec av1, avc or hevc.
C38_CodecNameResolved ==
    Returned("apply_encoding_settings") =>
        LET c == Unwrap(unit_call)
            r == Unwrap(unit_ret)
            named == IF IsSome(c.payload.codec)
                     THEN (CHOOSE t \in CodecNameTable : t.raw = Unwrap(c.payload.codec)).codec
                     ELSE "unknown"
            want == [codec |-> IF named = "unknown" THEN c.active.codec ELSE named,
                     fps |-> Limited(c.payload.fps, 24, 120),
                     bitrate |-> Limited(c.payload.bitrate, 2000000, 80000000),
                     keyframe_interval_secs |-> Limited(c.payload.keyframe_interval, 1, 10)]
            now_active == r.applied.encoding_settings
        IN /\ now_active = (IF c.codec_ok THEN want ELSE c.active)
           /\ r.applied.changed = (c.codec_ok /\ want # c.active)
           /\ r.applied.encoder.codec = now_active.codec
           /\ r.echo.payload.codec = (CASE now_active.codec = "Av1" -> "av1"
                                        [] now_active.codec = "Avc" -> "avc"
                                        [] now_active.codec = "Hevc" -> "hevc")
           /\ r.echo.payload.fps = now_active.fps

\* a request naming vp9 has been applied while HEVC is active
C38_Witness ==
    /\ Returned("apply_encoding_settings")
    /\ LET c == Unwrap(unit_call)
           r == Unwrap(unit_ret)
       IN /\ c.payload.codec = Some(<<"v", "p", "9">>)
          /\ c.payload.fps = 5
          /\ c.active.codec = "Hevc"
          /\ r.applied.changed
          /\ r.applied.encoding_settings.codec = "Hevc"
          /\ r.applied.encoding_settings.fps = 24
          /\ r.echo.payload.codec = "hevc"

\* a request naming " H264" has been applied while AV1 is active
C38_WitnessRecognised ==
    /\ Returned("apply_encoding_settings")
    /\ LET c == Unwrap(unit_call)
           r == Unwrap(unit_ret)
       IN /\ c.payload.codec = Some(<<" ", "H", "2", "6", "4">>)
          /\ c.active.codec = "Av1"
          /\ r.applied.changed
          /\ r.echo.payload.codec = "avc"

\* ---------------------------------------------------------------------------
\* acquired frames are released

\* times capture_frame has called op
CallsOf(r, op) == Cardinality({i \in 1..Len(r.calls) : r.calls[i] = op})

\* C39: capture_frame calls ReleaseFrame once for the frame a successful
\* AcquireNextFrame gave it, whatever fails afterwards, and never when the wait
\* timed out or failed.
C39_AcquiredFrameReleased ==
    Returned("capture_frame") =>
        LET c == Unwrap(unit_call)
            r == Unwrap(unit_ret)
        IN CallsOf(r, "ReleaseFrame") = (IF c.env.acquire = "ok" THEN 1 ELSE 0)

\* what the code does: the frame is released unless GetFramePointerShape was
\* called and failed
C39_ReleasedUnlessShapeFails ==
    Returned("capture_frame") =>
        LET c == Unwrap(unit_call)
            r == Unwrap(unit_ret)
        IN CallsOf(r, "ReleaseFrame") =
              (IF c.env.acquire = "ok" /\ ~(c.env.shape_size > 0 /\ ~c.env.shape_ok)
               THEN 1 ELSE 0)

====
